---- MODULE Spec2Model ----
(***************************************************************************)
(* Model of the live-translation relay (LiveTranslationApp): the per-user  *)
(* ConversationManager, the SSE fan-out, the glasses debouncer, the        *)
(* inactivity timer and the ConfidenceCalculator.                          *)
(*                                                                         *)
(* One user is modelled; the process-wide maps keyed by userId are the     *)
(* variables named after them, the maps keyed by sessionId are functions   *)
(* over SessionIds.  Time is counted in units of 100 ms (every duration of *)
(* the program is a multiple of 100 ms).  A text is a sequence of          *)
(* characters, a character is a one-element string.  An entry id           *)
(* "entry-N" is the number N; the null id is 0.                            *)
(***************************************************************************)
EXTENDS Integers, Sequences, FiniteSets, TLC

VARIABLES
  now,                      \* Date.now(), in units of 100 ms
  live,                     \* per session: "never" | "open" | "stopped" (the upstream's view)
  activeUserSessions,       \* the user's active session id, 0 when none
  sessionDebouncers,        \* per session: [exists, lastSentTime]
  debounceTimers,           \* pending setTimeout callbacks of debounceAndShowTranscript
  inactivityTimers,         \* per session: [exists, armed, due, lastActivityTime]
  handlers,                 \* per session: stream -> number of onTranslationForLanguage
                            \*  subscriptions of the session object
  dispatching,              \* the upstream event whose handlers are being called:
                            \*  [sid, d, left], left = handlers still to call
  userTranscriptProcessors, \* [exists, finals, numberOfLines, isChinese]
  userSourceLanguages,      \* language name, "none" when the map has no entry
  userTargetLanguages,
  userDisplayModes,
  userConfidenceHeuristics,
  userConfidenceCalculators,\* [exists, previousTranscript, wordStabilityBuffer,
                            \*  lastInterimLength, lastShownConfidentPrefix]
  hasCM,                    \* userConversationManagers has an entry for the user
  entries,                  \* ConversationManager.entries: id -> entry
  entryOrder,               \* ConversationManager.entryOrder
  currentInterimId,         \* ConversationManager.currentInterimId, 0 = null
  entryCounter,             \* ConversationManager.entryCounter
  languagePair,             \* ConversationManager.languagePair
  userSSEClients,           \* the user's set of SSE responses
  received,                 \* per SSE response: the events written to it
  broken,                   \* SSE responses whose write() throws
  glasses,                  \* the last showTextWall call: [text, durationMs, at, n]
  obs                       \* observations of the last step (outputs of the handlers)

vars == <<now, live, activeUserSessions, sessionDebouncers, debounceTimers,
          inactivityTimers, handlers, dispatching, userTranscriptProcessors,
          userSourceLanguages, userTargetLanguages, userDisplayModes,
          userConfidenceHeuristics, userConfidenceCalculators, hasCM, entries,
          entryOrder, currentInterimId, entryCounter, languagePair,
          userSSEClients, received, broken, glasses, obs>>

sessionVars == <<live, activeUserSessions, handlers>>
settingVars == <<userSourceLanguages, userTargetLanguages, userDisplayModes,
                 userConfidenceHeuristics>>
cmVars == <<hasCM, entries, entryOrder, currentInterimId, entryCounter, languagePair>>
sseVars == <<userSSEClients, received, broken>>

-----------------------------------------------------------------------------
(* Small helpers on sequences and numbers. *)

Min(a, b) == IF a <= b THEN a ELSE b
Max(a, b) == IF a >= b THEN a ELSE b
Abs(a) == IF a >= 0 THEN a ELSE 0 - a

RECURSIVE SumSeq(_)
SumSeq(s) == IF s = <<>> THEN 0 ELSE Head(s) + SumSeq(Tail(s))

RECURSIVE Concat(_)
Concat(ss) == IF ss = <<>> THEN <<>> ELSE Head(ss) \o Concat(Tail(ss))

\* Array.prototype.join
RECURSIVE Join(_, _)
Join(ss, sep) ==
  IF ss = <<>> THEN <<>>
  ELSE IF Len(ss) = 1 THEN Head(ss)
  ELSE Head(ss) \o sep \o Join(Tail(ss), sep)

\* Array.prototype.slice(-n): the last n elements
LastN(s, n) == IF Len(s) <= n THEN s ELSE SubSeq(s, Len(s) - n + 1, Len(s))

Reverse(s) == [i \in 1..Len(s) |-> s[Len(s) + 1 - i]]

-----------------------------------------------------------------------------
(* Characters.  \w of the regular expressions is Lower, Upper and digits;  *)
(* the Hanzi characters stand for any character outside ASCII.             *)

Lower == {"a", "b", "c", "d", "e", "h", "i", "k", "n", "o", "q", "r", "t", "u", "w"}
Upper == {"A", "T"}
Punct == {".", ",", "?", "!"}
Hanzi == {"H1", "H2"}
Space == {" ", "\n"}

IsSpace(c) == c \in Space

ToLowerChar(c) == IF c = "A" THEN "a" ELSE IF c = "T" THEN "t" ELSE c

\* String.prototype.trim
RECURSIVE TrimLeft(_)
TrimLeft(t) == IF t # <<>> /\ IsSpace(Head(t)) THEN TrimLeft(Tail(t)) ELSE t
Trim(t) == Reverse(TrimLeft(Reverse(TrimLeft(t))))

-----------------------------------------------------------------------------
(* Exact fractions <<numerator, denominator>> stand for the program's      *)
(* floating-point numbers; comparisons are by cross multiplication.        *)

RECURSIVE GCD(_, _)
GCD(a, b) == IF b = 0 THEN a ELSE GCD(b, a % b)

Frac(n, d) == LET g == GCD(Abs(n), d) IN <<n \div g, d \div g>>
FMul(a, b) == Frac(a[1] * b[1], a[2] * b[2])
FAdd(a, b) == Frac(a[1] * b[2] + b[1] * a[2], a[2] * b[2])
FSub(a, b) == Frac(a[1] * b[2] - b[1] * a[2], a[2] * b[2])
FLeq(a, b) == a[1] * b[2] <= b[1] * a[2]
FLt(a, b) == a[1] * b[2] < b[1] * a[2]
FMin(a, b) == IF FLeq(a, b) THEN a ELSE b
FMax(a, b) == IF FLeq(a, b) THEN b ELSE a
FInt(n) == <<n, 1>>

-----------------------------------------------------------------------------
(* ConfidenceCalculator *)

\* text.split(/\s+/): the tokens between the runs of whitespace; a leading
\* or trailing run leaves an empty token, and '' splits into [''].
RECURSIVE SplitWhitespace(_, _, _, _)
SplitWhitespace(t, cur, acc, inRun) ==
  IF t = <<>> THEN Append(acc, cur)
  ELSE IF IsSpace(Head(t))
       THEN IF inRun THEN SplitWhitespace(Tail(t), cur, acc, TRUE)
            ELSE SplitWhitespace(Tail(t), <<>>, Append(acc, cur), TRUE)
       ELSE SplitWhitespace(Tail(t), Append(cur, Head(t)), acc, FALSE)

\* text.split('').filter(c => c.trim().length > 0)
RECURSIVE SplitChars(_)
SplitChars(t) ==
  IF t = <<>> THEN <<>>
  ELSE IF IsSpace(Head(t)) THEN SplitChars(Tail(t))
  ELSE <<<<Head(t)>>>> \o SplitChars(Tail(t))

splitWords(text, isHanzi) ==
  IF isHanzi THEN SplitChars(text) ELSE SplitWhitespace(text, <<>>, <<>>, FALSE)

\* word.toLowerCase().replace(/[^\w\s]/g, '').trim()
RECURSIVE KeepWordChars(_)
KeepWordChars(w) ==
  IF w = <<>> THEN <<>>
  ELSE IF Head(w) \in Lower \cup Space
       THEN <<Head(w)>> \o KeepWordChars(Tail(w))
       ELSE KeepWordChars(Tail(w))

normalizeWord(word) ==
  Trim(KeepWordChars([i \in 1..Len(word) |-> ToLowerChar(word[i])]))

RECURSIVE CommonPrefixLen(_, _, _)
CommonPrefixLen(a, b, n) ==
  IF n = 0 \/ a = <<>> \/ b = <<>> \/ Head(a) # Head(b) THEN 0
  ELSE 1 + CommonPrefixLen(Tail(a), Tail(b), n - 1)

\* The body of wordSimilarity on the two normalized words.
normSimilarity(norm1, norm2) ==
  LET minLen == Min(Len(norm1), Len(norm2))
      prefixLen == CommonPrefixLen(norm1, norm2, minLen)
  IN IF norm1 = norm2 THEN FInt(1)
     ELSE IF Len(norm1) = 0 \/ Len(norm2) = 0 THEN FInt(0)
     ELSE Frac(CommonPrefixLen(Reverse(norm1), Reverse(norm2), minLen - prefixLen)
                 + prefixLen,
               Max(Len(norm1), Len(norm2)))

wordSimilarity(word1, word2) == normSimilarity(normalizeWord(word1), normalizeWord(word2))

\* The combined score of one buffer detail for a word at a position.
matchScore(detail, wordScore, position, nWords) ==
  LET positionPenalty == Frac(Abs(detail.bestPosition - position), Max(nWords, 1))
      positionScore == FMax(FInt(0), FSub(FInt(1), FMin(positionPenalty, Frac(3, 10))))
  IN FAdd(FMul(Frac(7, 10), wordScore), FMul(Frac(3, 10), positionScore))

\* combinedScore > bestScore && wordScore >= 0.8
BetterMatchMutant(combinedScore, wordScore, bestScore) ==
  FLt(bestScore, combinedScore) /\ FLt(Frac(8, 10), wordScore)
betterMatch(combinedScore, wordScore, bestScore) ==
  FLt(bestScore, combinedScore) /\ FLeq(Frac(8, 10), wordScore)

\* The state of the loop of findBestMatch after the detail at index k with
\* word similarity wordScore: <<bestMatch, bestScore>>.
matchStep(detail, k, wordScore, position, nWords, bestIdx, bestScore) ==
  IF betterMatch(matchScore(detail, wordScore, position, nWords), wordScore, bestScore)
  THEN <<k, matchScore(detail, wordScore, position, nWords)>>
  ELSE <<bestIdx, bestScore>>

\* findBestMatch and findBestMatchReadOnly (the same loop): the index in the
\* buffer of the first detail with the highest combined score among those
\* with word similarity >= 0.8; 0 when there is none.
RECURSIVE BestMatchFrom(_, _, _, _, _, _, _)
RECURSIVE BestMatchAfter(_, _, _, _, _, _)
BestMatchFrom(buffer, k, word, position, nWords, bestIdx, bestScore) ==
  IF k > Len(buffer) THEN bestIdx
  ELSE BestMatchAfter(buffer, k, word, position, nWords,
                      matchStep(buffer[k], k, wordSimilarity(word, buffer[k].word),
                                position, nWords, bestIdx, bestScore))

BestMatchAfter(buffer, k, word, position, nWords, best) ==
  BestMatchFrom(buffer, k + 1, word, position, nWords, best[1], best[2])

findBestMatch(buffer, word, position, nWords) ==
  BestMatchFrom(buffer, 1, word, position, nWords, 0, FInt(0))

decayTime == 20      \* 2000 ms
decaySpan == 50      \* 5000 ms

\* The decay loop at the head of calculateWordStability.
decayDetail(detail, currentTime) ==
  LET timeSinceLastSeen == currentTime - detail.lastSeen
      decayFactor == FMax(Frac(1, 10),
                          FSub(FInt(1), Frac(timeSinceLastSeen - decayTime, decaySpan)))
  IN IF timeSinceLastSeen > decayTime
     THEN [detail EXCEPT !.stableCount = FMax(FInt(1), FMul(detail.stableCount, decayFactor))]
     ELSE detail

\* ...bestMatch.positionHistory.slice(-5), i
slicedHistory(history, i) == Append(LastN(history, 5), i)

\* The detail pushed for a word at index i (0-based) whose best match is at
\* index m of the buffer (0: no match).
matchedDetail(buffer, word, m, i, currentTime) ==
     IF m # 0
     THEN [word |-> word, normalizedWord |-> normalizeWord(word),
           stableCount |-> FAdd(buffer[m].stableCount, FInt(1)),
           firstSeen |-> buffer[m].firstSeen, lastSeen |-> currentTime,
           bestPosition |-> i, positionHistory |-> slicedHistory(buffer[m].positionHistory, i)]
     ELSE [word |-> word, normalizedWord |-> normalizeWord(word),
           stableCount |-> FInt(1), firstSeen |-> currentTime, lastSeen |-> currentTime,
           bestPosition |-> i, positionHistory |-> <<i>>]

\* The detail pushed for the word at index i (0-based) of the current words.
wordDetail(buffer, words, i, currentTime) ==
  matchedDetail(buffer, words[i + 1], findBestMatch(buffer, words[i + 1], i, Len(words)),
                i, currentTime)

\* calculateWordStability: the new word-detail buffer (the score is not used
\* by any caller of calculateConfidence).
\* The buffer after the loop over the current words: fresh holds the details
\* pushed for them, and an old detail is kept when no fresh one matches it
\* and its stableCount is above 0.5.
mergedBuffer(decayed, fresh) ==
  LET wasMatched(old) == \E k \in 1..Len(fresh) :
                            FLt(Frac(8, 10), wordSimilarity(old.word, fresh[k].word))
  IN fresh \o SelectSeq(decayed, LAMBDA old : ~wasMatched(old) /\ FLt(Frac(1, 2), old.stableCount))

\* The details pushed for the current words, matched against the buffer.
freshDetails(buffer, currentWords, currentTime) ==
  [k \in 1..Len(currentWords) |-> wordDetail(buffer, currentWords, k - 1, currentTime)]

stabilityBuffer(buffer, decayed, currentWords, currentTime) ==
  IF Len(currentWords) = 0 THEN buffer
  ELSE mergedBuffer(decayed, freshDetails(decayed, currentWords, currentTime))

calculateWordStability(buffer, currentTranscript, isHanzi, currentTime) ==
  stabilityBuffer(buffer, [k \in 1..Len(buffer) |-> decayDetail(buffer[k], currentTime)],
                  splitWords(currentTranscript, isHanzi), currentTime)

\* calculateWordDuration: the buffer is replaced by the details of the
\* current words alone.
durationBuffer(buffer, currentWords, currentTime) ==
  IF Len(currentWords) = 0 THEN buffer
  ELSE freshDetails(buffer, currentWords, currentTime)

calculateWordDuration(buffer, currentTranscript, isHanzi, currentTime) ==
  durationBuffer(buffer, splitWords(currentTranscript, isHanzi), currentTime)

\* calculateConfidence: its effect on the calculator (heuristic # 'None').
calculateConfidence(calc, currentTranscript, isHanzi, heuristic, currentTime) ==
  IF heuristic = "None" THEN calc
  ELSE [calc EXCEPT
          !.wordStabilityBuffer =
             IF heuristic \in {"WordStability", "Hybrid"}
             THEN calculateWordStability(@, currentTranscript, isHanzi, currentTime)
             ELSE IF heuristic = "WordDuration"
             THEN calculateWordDuration(@, currentTranscript, isHanzi, currentTime)
             ELSE @,
          !.previousTranscript = currentTranscript]

\* stabilityFactor * positionConsistency >= threshold, where
\* stabilityFactor = min(1, stableCount / 3) and positionConsistency =
\* max(0, 1 - stdDev(positionHistory) / 2); stated without the square root.
confidenceAtLeast(detail, threshold) ==
  LET s == FMin(FInt(1), FMul(detail.stableCount, Frac(1, 3)))
      h == detail.positionHistory
      n == Len(h)
      V == n * SumSeq([k \in 1..n |-> h[k] * h[k]]) - SumSeq(h) * SumSeq(h)
      room == FSub(s, threshold)        \* s - threshold
      q == Frac(room[1] * s[2], room[2] * s[1])    \* (s - threshold) / s
  IN IF threshold[1] <= 0 THEN TRUE
     ELSE IF n <= 1 THEN FLeq(threshold, s)
     ELSE /\ room[1] >= 0
          \* sqrt(V) / (2 n) <= (s - threshold) / s
          /\ V * q[2] * q[2] <= (2 * n * q[1]) * (2 * n * q[1])

\* wordConfidence >= threshold for a word whose best match is at index m of
\* the buffer; an unmatched word has confidence 0.2.
MatchConfidentMutant(buffer, m, threshold) ==
  IF m # 0 THEN confidenceAtLeast(buffer[m], threshold)
  ELSE FLeq(threshold, Frac(5, 10))
matchConfident(buffer, m, threshold) ==
  IF m # 0 THEN confidenceAtLeast(buffer[m], threshold)
  ELSE FLeq(threshold, Frac(2, 10))

RECURSIVE ConfidentWords(_, _, _, _)
ConfidentWords(buffer, words, index, threshold) ==
  IF index >= Len(words) THEN <<>>
  ELSE IF matchConfident(buffer, findBestMatch(buffer, words[index + 1], index, Len(words)),
                          threshold)
       THEN <<words[index + 1]>> \o ConfidentWords(buffer, words, index + 1, threshold)
       ELSE <<>>

getConfidentPrefix(calc, currentTranscript, threshold, isHanzi) ==
  Join(ConfidentWords(calc.wordStabilityBuffer, splitWords(currentTranscript, isHanzi),
                      0, threshold),
       IF isHanzi THEN <<>> ELSE <<" ">>)

\* getNonShrinkingConfidentPrefix: the prefix it returns.
nonShrinking(newConfidentPrefix, lastShownConfidentPrefix, isHanzi) ==
  LET newPrefixLength == Len(splitWords(newConfidentPrefix, isHanzi))
      lastPrefixLength == Len(splitWords(lastShownConfidentPrefix, isHanzi))
  IN IF newPrefixLength >= lastPrefixLength THEN newConfidentPrefix
     ELSE lastShownConfidentPrefix

getNonShrinkingConfidentPrefix(calc, currentTranscript, threshold, isHanzi) ==
  nonShrinking(getConfidentPrefix(calc, currentTranscript, threshold, isHanzi),
               calc.lastShownConfidentPrefix, isHanzi)

NewCalculator ==
  [exists |-> TRUE, previousTranscript |-> <<>>, wordStabilityBuffer |-> <<>>,
   lastInterimLength |-> 0, lastShownConfidentPrefix |-> <<>>]
NoCalculator == [NewCalculator EXCEPT !.exists = FALSE]

\* resetState empties the word details, the previous transcript and the
\* interim tracking
ResetStateMutant(calc) ==
  [calc EXCEPT !.lastInterimLength = 0, !.lastShownConfidentPrefix = <<>>]
resetState(calc) == NewCalculator
resetInterimTracking(calc) ==
  [calc EXCEPT !.lastInterimLength = 0, !.lastShownConfidentPrefix = <<>>]

-----------------------------------------------------------------------------
(* Languages and settings *)

NoLocale == <<"", "">>      \* an absent locale: ''.split('-')[0] is ''

\* languageToLocale, on the language names the model uses; a locale
\* "en-US" is <<"en", "US">>.
languageToLocale(name) ==
  CASE name \in {"English", "English (United States)"} -> <<"en", "US">>
    [] name \in {"Chinese", "Chinese (Pinyin)", "Chinese (Hanzi)", "Chinese (Mandarin)"}
         -> <<"zh", "CN">>
    [] OTHER -> <<"en", "US">>

\* locale.split('-')[0]
languageSubtag(locale) == locale[1]

\* localeToLanguage (./utils): the language name of a locale
localeToLanguage(locale) ==
  CASE languageSubtag(locale) = "zh" -> "Chinese"
    [] languageSubtag(locale) = "fr" -> "French"
    [] OTHER -> "English"

\* name.toLowerCase().includes('hanzi')
includesHanzi(name) == name = "Chinese (Hanzi)"

\* The fallbacks of defaultSettings.
defaultSettings ==
  [transcribeLanguage |-> "Chinese (Hanzi)", translateLanguage |-> "English",
   lineWidth |-> "Medium", numberOfLines |-> 3, displayMode |-> "everything",
   confidenceHeuristic |-> "None"]

\* convertToPinyin (./utils/ChineseUtils): Hanzi characters become syllables
convertToPinyin(text) ==
  [i \in 1..Len(text) |-> IF text[i] = "H1" THEN "n" ELSE IF text[i] = "H2" THEN "h" ELSE text[i]]

-----------------------------------------------------------------------------
(* TranscriptProcessor (./utils): the caption formatter.  A caption takes  *)
(* one line of the frame and an empty caption wraps to no line; the        *)
(* wrapping arithmetic is not modelled.                                    *)

MAX_FINAL_TRANSCRIPTS == 100

NewProcessor(lineWidth, numberOfLines, isChinese) ==
  [exists |-> TRUE, finals |-> <<>>, lineWidth |-> lineWidth,
   numberOfLines |-> numberOfLines, isChinese |-> isChinese]
NoProcessor == [NewProcessor("Medium", 3, FALSE) EXCEPT !.exists = FALSE]

\* processString: the processor afterwards
processStringState(proc, text, isFinal) ==
  IF isFinal /\ Trim(text) # <<>> THEN [proc EXCEPT !.finals = LastN(Append(@, text), MAX_FINAL_TRANSCRIPTS)]
  ELSE proc

\* processString: the frame it returns
processStringFrame(proc, text, isFinal) ==
  LET lines == IF isFinal THEN processStringState(proc, text, TRUE).finals
               ELSE IF Trim(text) # <<>> THEN Append(proc.finals, text)
               ELSE proc.finals
  IN Join(LastN(lines, proc.numberOfLines), <<"\n">>)

-----------------------------------------------------------------------------
(* ConversationManager *)

maxEntries == 500

\* addTranslation: the entry it returns
AddTranslationEntryMutant(originalText, translatedText, originalLanguage, translatedLanguage, isFinal) ==
  [id |-> entryCounter + 1, timestamp |-> now, originalText |-> originalText,
   translatedText |-> translatedText, originalLanguage |-> originalLanguage,
   translatedLanguage |-> translatedLanguage, isFinal |-> isFinal,
   isNewUtterance |-> isFinal]
UnpromotedEntryMutant(originalText, translatedText, originalLanguage, translatedLanguage, isFinal) ==
  [id |-> IF currentInterimId # 0 THEN currentInterimId ELSE entryCounter + 1,
   timestamp |-> now, originalText |-> originalText,
   translatedText |-> translatedText, originalLanguage |-> originalLanguage,
   translatedLanguage |-> translatedLanguage, isFinal |-> FALSE,
   isNewUtterance |-> isFinal]
addTranslationEntry(originalText, translatedText, originalLanguage, translatedLanguage, isFinal) ==
  LET base(id) == [id |-> id, timestamp |-> now, originalText |-> originalText,
                   translatedText |-> translatedText,
                   originalLanguage |-> originalLanguage,
                   translatedLanguage |-> translatedLanguage]
  IN IF ~isFinal /\ currentInterimId # 0
     THEN base(currentInterimId) @@ [isFinal |-> FALSE]
     ELSE IF isFinal /\ currentInterimId # 0
     THEN base(currentInterimId) @@ [isFinal |-> TRUE, isNewUtterance |-> TRUE]
     ELSE base(entryCounter + 1) @@ [isFinal |-> isFinal, isNewUtterance |-> isFinal]

\* Map.set
MapSet(map, key, value) ==
  [k \in DOMAIN map \cup {key} |-> IF k = key THEN value ELSE map[k]]
\* Map.delete
MapDelete(map, key) == [k \in DOMAIN map \ {key} |-> map[k]]

\* this.entryOrder.length > this.maxEntries
OverLimitMutant(order) == Len(order) > maxEntries + 1
overLimit(order) == Len(order) > maxEntries

\* addTranslation: its effect on the manager
addTranslation(originalText, translatedText, originalLanguage, translatedLanguage, isFinal) ==
  LET entry == addTranslationEntry(originalText, translatedText, originalLanguage,
                                   translatedLanguage, isFinal)
      pushed == Append(entryOrder, entry.id)
  IN IF currentInterimId # 0
     THEN /\ entries' = MapSet(entries, currentInterimId, entry)
          /\ currentInterimId' = IF isFinal THEN 0 ELSE currentInterimId
          /\ UNCHANGED <<entryOrder, entryCounter>>
     ELSE /\ entryCounter' = entryCounter + 1
          /\ currentInterimId' = IF isFinal THEN 0 ELSE entry.id
          /\ IF overLimit(pushed)
             THEN /\ entryOrder' = Tail(pushed)
                  /\ entries' = MapDelete(MapSet(entries, entry.id, entry), Head(pushed))
             ELSE /\ entryOrder' = pushed
                  /\ entries' = MapSet(entries, entry.id, entry)

\* getAllEntries
GetAllEntriesMutant == [i \in 1..Len(entryOrder) |-> entries[Reverse(entryOrder)[i]]]
getAllEntries ==
  LET present == SelectSeq(entryOrder, LAMBDA id : id \in DOMAIN entries)
  IN [i \in 1..Len(present) |-> entries[present[i]]]

EmptyMap == [k \in {} |-> 0]

\* clear
ClearMutant ==
  /\ entries' = EmptyMap
  /\ entryOrder' = entryOrder
  /\ currentInterimId' = 0
  /\ entryCounter' = 0
clear ==
  /\ entries' = EmptyMap
  /\ entryOrder' = <<>>
  /\ currentInterimId' = 0
  /\ entryCounter' = 0

-----------------------------------------------------------------------------
(* The SSE fan-out *)

\* broadcastToUserSSEClients: what each response has received afterwards
BroadcastReceivedMutant(event) ==
  [c \in DOMAIN received |->
     IF c \in userSSEClients /\ c \notin broken /\ c = "c1" THEN Append(received[c], event)
     ELSE received[c]]
BroadcastPrependMutant(event) ==
  [c \in DOMAIN received |->
     IF c \in userSSEClients /\ c \notin broken THEN <<event>> \o received[c]
     ELSE received[c]]
broadcastReceived(event) ==
  [c \in DOMAIN received |->
     IF c \in userSSEClients /\ c \notin broken THEN Append(received[c], event)
     ELSE received[c]]

\* broadcastToUserSSEClients: the subscriber set afterwards (a response
\* whose write throws is deleted)
BroadcastClientsMutant == userSSEClients
broadcastClients == userSSEClients \ broken

ConnectedEvent == [type |-> "connected", data |-> [status |-> "connected"]]
TranslationEvent(entry) == [type |-> "translation", data |-> entry]
ClearEvent == [type |-> "clear", data |-> EmptyMap]
LanguageChangeEvent(from, to) == [type |-> "languageChange", data |-> [from |-> from, to |-> to]]

-----------------------------------------------------------------------------
(* The glasses sink and the debouncer *)

SessionIds == {1, 2}
Clients == {"c1", "c2"}

debounceDelay == 4          \* 400 ms
inactivityDelay == 400      \* 40000 ms
finalDuration == 200        \* durationMs: 20000
noDuration == 0             \* durationMs: undefined
clearDuration == 10         \* durationMs: 1000
warningDuration == 100      \* durationMs: 10000

\* text.replace(/^[.,;:!?...]+/, '').trim()
RECURSIVE StripLeadingPunct(_)
StripLeadingPunct(t) ==
  IF t # <<>> /\ Head(t) \in Punct THEN StripLeadingPunct(Tail(t)) ELSE t
cleanTranscriptText(text) == Trim(StripLeadingPunct(text))

\* session.layouts.showTextWall of the session sid: the sink afterwards
showTextWall(sid, text, durationMs) ==
  [text |-> text, durationMs |-> durationMs, at |-> now, sid |-> sid, n |-> 1 - glasses.n]

showTranscriptsToUser(sid, transcript, isFinal) ==
  showTextWall(sid, cleanTranscriptText(transcript),
               IF isFinal THEN finalDuration ELSE noDuration)

NoDebouncer == [exists |-> FALSE, lastSentTime |-> 0]
NewDebouncer == [exists |-> TRUE, lastSentTime |-> 0]

\* setTimeout(..., debounceDelay): when the timer of a throttled interim is due
TimerDueMutant(debouncer) == debouncer.lastSentTime + debounceDelay
timerDue(debouncer) == now + debounceDelay

\* debouncer.timer = setTimeout(() => showTranscriptsToUser(session, transcript, false), ...)
SetTimerMutant(sid, debouncer, transcript) ==
  [sid |-> sid, due |-> timerDue(debouncer),
   transcript |-> IF \E t \in debounceTimers : t.sid = sid
                  THEN (CHOOSE t \in debounceTimers : t.sid = sid).transcript
                  ELSE transcript]
setTimer(sid, debouncer, transcript) ==
  [sid |-> sid, due |-> timerDue(debouncer), transcript |-> transcript]

\* the test that sends an interim at once
SendNowMutant(debouncer) == now - debouncer.lastSentTime >= debounceDelay - 1
sendNow(debouncer) == now - debouncer.lastSentTime >= debounceDelay

\* clearTimeout(debouncer.timer): the pending timers afterwards
ClearTimerMutant(sid) == debounceTimers
clearDebounceTimer(sid) == {t \in debounceTimers : t.sid # sid}

\* debounceAndShowTranscript
debounceAndShowTranscript(sid, transcript, isFinal) ==
  LET debouncer == IF sessionDebouncers[sid].exists THEN sessionDebouncers[sid]
                   ELSE NewDebouncer
      sent == [debouncer EXCEPT !.lastSentTime = now]
  IN IF isFinal
     THEN /\ glasses' = showTranscriptsToUser(sid, transcript, TRUE)
          /\ sessionDebouncers' = [sessionDebouncers EXCEPT ![sid] = sent]
          /\ debounceTimers' = clearDebounceTimer(sid)
     ELSE IF sendNow(debouncer)
     THEN /\ glasses' = showTranscriptsToUser(sid, transcript, FALSE)
          /\ sessionDebouncers' = [sessionDebouncers EXCEPT ![sid] = sent]
          /\ debounceTimers' = clearDebounceTimer(sid)
     ELSE /\ glasses' = glasses
          /\ sessionDebouncers' = [sessionDebouncers EXCEPT ![sid] = debouncer]
          /\ debounceTimers' = clearDebounceTimer(sid) \cup
                                 {setTimer(sid, debouncer, transcript)}

\* resetInactivityTimer: the session's timer entry afterwards
NoInactivityTimer == [exists |-> FALSE, armed |-> FALSE, due |-> 0, lastActivityTime |-> 0]
resetInactivityTimer(sid) ==
  LET t == inactivityTimers[sid]
  IN IF ~t.exists THEN inactivityTimers
     ELSE [inactivityTimers EXCEPT ![sid] =
             [exists |-> TRUE, armed |-> TRUE, due |-> now + inactivityDelay,
              lastActivityTime |-> now]]

-----------------------------------------------------------------------------
(* handleTranslation *)

\* the display gate at the end of handleTranslation
\* the test that adds the event to the conversation manager
LogGateMutant(hasManager, didTranslate) == hasManager
logGate(hasManager, didTranslate) == hasManager /\ didTranslate

DisplayGateMutant(displayMode, didTranslate) ==
  \/ displayMode = "translations"
  \/ displayMode = "everything"
displayGate(displayMode, didTranslate) ==
  \/ displayMode = "translations" /\ didTranslate
  \/ displayMode = "everything"

-----------------------------------------------------------------------------
(* Observations: obs records what the handlers returned and wrote, for the *)
(* properties to speak about; no handler reads it.                         *)
(*   returned: the entry addTranslation last returned, and the texts it    *)
(*     was called with;                                                    *)
(*   prefix: the last prefix getNonShrinkingConfidentPrefix returned since *)
(*     the calculator was last reset;                                      *)
(*   passed: per session, the last frame handed to                         *)
(*     debounceAndShowTranscript and whether it has been written;          *)
(*   interimAt: per session, the times of the last two interim writes;     *)
(*   seenFinal: the ids the manager has returned with isFinal = true;      *)
(*   run: the current run of interim addTranslation calls.                 *)

NoPrefix == [has |-> FALSE, text |-> <<>>]
NoPassed == [has |-> FALSE, transcript |-> <<>>, isFinal |-> FALSE, written |-> FALSE]
NoInterimAt == <<-1, -1>>
NoRun == [active |-> FALSE, done |-> FALSE, k |-> 0, id |-> 0, sameId |-> TRUE,
          counter0 |-> 0, order0 |-> <<>>, clients |-> {},
          lens |-> [c \in Clients |-> 0]]

NoReturned == [has |-> FALSE, entry |-> [id |-> 0], args |-> <<>>]

\* the run of interim calls after an addTranslation call that returned entry
runAfter(entry, isFinal) ==
  LET r == obs.run
      delivered == userSSEClients \ broken
  IN IF ~isFinal /\ currentInterimId = 0
     THEN [active |-> TRUE, done |-> FALSE, k |-> 1, id |-> entry.id, sameId |-> TRUE,
           counter0 |-> entryCounter, order0 |-> entryOrder, clients |-> delivered,
           lens |-> [c \in Clients |-> Len(received[c])]]
     ELSE IF r.active
     THEN [r EXCEPT !.active = ~isFinal, !.done = isFinal,
                    !.k = IF isFinal THEN @ ELSE @ + 1,
                    !.sameId = @ /\ entry.id = r.id,
                    !.clients = @ \cap delivered]
     ELSE NoRun

\* the interim write times of a session after an interim write
interimWritten(sid) == [obs.interimAt EXCEPT ![sid] = <<@[2], now>>]

handleTranslation(sid, d) ==
  LET sourceLanguage == IF userSourceLanguages # "none" THEN userSourceLanguages
                        ELSE defaultSettings.transcribeLanguage
      targetLanguage == IF userTargetLanguages # "none" THEN userTargetLanguages
                        ELSE defaultSettings.translateLanguage
      targetLocale == languageToLocale(targetLanguage)
      displayMode == IF userDisplayModes # "none" THEN userDisplayModes
                     ELSE defaultSettings.displayMode
      heuristic == IF userConfidenceHeuristics # "none" THEN userConfidenceHeuristics
                   ELSE defaultSettings.confidenceHeuristic
      \* targetLang.toLowerCase().startsWith('zh-') || ...startsWith('ja-'):
      \* no language name starts so
      transcriptProcessor ==
        IF userTranscriptProcessors.exists THEN userTranscriptProcessors
        ELSE NewProcessor(defaultSettings.lineWidth, defaultSettings.numberOfLines, FALSE)
      confidenceCalculator ==
        IF userConfidenceCalculators.exists THEN userConfidenceCalculators
        ELSE NewCalculator
      matches == languageSubtag(d.translateLanguage) = languageSubtag(targetLocale)
      glassesText0 == IF d.didTranslate /\ ~matches THEN <<>> ELSE d.text
      isPinyin == targetLanguage = "Chinese (Pinyin)"
      glassesDisplayText == IF isPinyin THEN convertToPinyin(glassesText0) ELSE glassesText0
      newText == IF isPinyin /\ d.text = glassesDisplayText THEN glassesDisplayText ELSE d.text
      logged == logGate(hasCM, d.didTranslate)
      entry == addTranslationEntry(d.originalText, newText,
                                   localeToLanguage(d.transcribeLanguage),
                                   localeToLanguage(d.translateLanguage), d.isFinal)
      isHanzi == includesHanzi(targetLanguage) \/ languageSubtag(targetLocale) = "ja"
      gate == displayGate(displayMode, d.didTranslate)
      \* the rest of the handler, given the calculator after
      \* calculateConfidence, the confident prefix and the frame to display
      display(scored, confidentPrefix, textToDisplay) ==
     /\ inactivityTimers' = resetInactivityTimer(sid)
     /\ userTranscriptProcessors' =
          processStringState(transcriptProcessor,
                             IF d.isFinal THEN glassesDisplayText ELSE confidentPrefix,
                             d.isFinal)
     /\ userConfidenceCalculators' =
          IF d.isFinal THEN resetInterimTracking(resetState(confidenceCalculator))
          ELSE IF heuristic = "None" THEN confidenceCalculator
          \* getNonShrinkingConfidentPrefix stores the new prefix when it
          \* returns it, and returns the stored one otherwise
          ELSE [scored EXCEPT !.lastShownConfidentPrefix = confidentPrefix]
     /\ IF logged
        THEN /\ addTranslation(d.originalText, newText,
                               localeToLanguage(d.transcribeLanguage),
                               localeToLanguage(d.translateLanguage), d.isFinal)
             /\ received' = broadcastReceived(TranslationEvent(entry))
             /\ userSSEClients' = broadcastClients
        ELSE UNCHANGED <<entries, entryOrder, currentInterimId, entryCounter,
                         received, userSSEClients>>
     /\ IF gate
        THEN debounceAndShowTranscript(sid, textToDisplay, d.isFinal)
        ELSE UNCHANGED <<glasses, sessionDebouncers, debounceTimers>>
     /\ obs' = [obs EXCEPT
                  !.returned = IF logged THEN [has |-> TRUE, entry |-> entry,
                                              args |-> <<d.originalText, newText>>]
                              ELSE @,
                  !.prefix = IF d.isFinal THEN NoPrefix
                             ELSE IF heuristic = "None" THEN @
                             ELSE [has |-> TRUE, text |-> confidentPrefix],
                  !.passed = IF gate
                             THEN [@ EXCEPT ![sid] =
                                     [has |-> TRUE, transcript |-> textToDisplay,
                                      isFinal |-> d.isFinal,
                                      written |-> glasses'.n # glasses.n]]
                             ELSE @,
                  !.interimAt = IF gate /\ ~d.isFinal /\ glasses'.n # glasses.n
                                THEN interimWritten(sid) ELSE @,
                  !.seenFinal = IF logged /\ d.isFinal THEN @ \cup {entry.id} ELSE @,
                  !.run = IF logged THEN runAfter(entry, d.isFinal) ELSE @]
     /\ UNCHANGED <<now, sessionVars, settingVars, hasCM, languagePair, broken>>
      framed(scored, confidentPrefix) ==
        display(scored, confidentPrefix,
                processStringFrame(transcriptProcessor,
                                   IF d.isFinal THEN glassesDisplayText ELSE confidentPrefix,
                                   d.isFinal))
      prefixed(scored) ==
        framed(scored,
               IF heuristic = "None" THEN glassesDisplayText
               ELSE getNonShrinkingConfidentPrefix(scored, glassesDisplayText, <<2, 5>>,
                                                   isHanzi))
  IN prefixed(calculateConfidence(confidenceCalculator, glassesDisplayText, isHanzi,
                                  heuristic, now))

-----------------------------------------------------------------------------
(* Timers *)

\* The callback of a debounce timer.
fireDebounceTimer(t) ==
  /\ t \in debounceTimers
  /\ now >= t.due
  /\ debounceTimers' = debounceTimers \ {t}
  /\ glasses' = showTranscriptsToUser(t.sid, t.transcript, FALSE)
  /\ sessionDebouncers' =
       [sessionDebouncers EXCEPT ![t.sid] =
          IF @.exists THEN [@ EXCEPT !.lastSentTime = now] ELSE @]
  /\ obs' = [obs EXCEPT
               !.passed = [@ EXCEPT ![t.sid] =
                             IF @.transcript = t.transcript THEN [@ EXCEPT !.written = TRUE]
                             ELSE @],
               !.interimAt = interimWritten(t.sid)]
  /\ UNCHANGED <<dispatching, now, sessionVars, inactivityTimers, userTranscriptProcessors,
                 settingVars, userConfidenceCalculators, cmVars, sseVars>>

\* The callback of the inactivity timer of a session.
fireInactivityTimer(sid) ==
  /\ inactivityTimers[sid].armed
  /\ now >= inactivityTimers[sid].due
  /\ inactivityTimers' = [inactivityTimers EXCEPT ![sid].armed = FALSE]
  /\ IF userTranscriptProcessors.exists
     THEN /\ userTranscriptProcessors' = [userTranscriptProcessors EXCEPT !.finals = <<>>]
          /\ IF hasCM
             THEN /\ clear
                  /\ received' = broadcastReceived(ClearEvent)
                  /\ userSSEClients' = broadcastClients
             ELSE UNCHANGED <<entries, entryOrder, currentInterimId, entryCounter,
                              received, userSSEClients>>
          /\ glasses' = showTextWall(sid, <<>>, clearDuration)
     ELSE UNCHANGED <<userTranscriptProcessors, entries, entryOrder, currentInterimId,
                      entryCounter, received, userSSEClients, glasses>>
  /\ obs' = IF userTranscriptProcessors.exists /\ hasCM
             THEN [obs EXCEPT !.returned = NoReturned, !.run = NoRun]
             ELSE obs
  /\ UNCHANGED <<dispatching, now, sessionVars, sessionDebouncers, debounceTimers, settingVars,
                 userConfidenceCalculators, hasCM, languagePair, broken>>

\* Time passes.
Tick(d) ==
  /\ now' = now + d
  /\ UNCHANGED <<dispatching, sessionVars, sessionDebouncers, debounceTimers, inactivityTimers,
                 userTranscriptProcessors, settingVars, userConfidenceCalculators,
                 cmVars, sseVars, glasses, obs>>

\* No pending timer is due before now + d: the event loop runs a due timer
\* before time moves past it.
TimersPrompt(d) ==
  /\ \A t \in debounceTimers : now + d <= t.due
  /\ \A sid \in SessionIds : inactivityTimers[sid].armed => now + d <= inactivityTimers[sid].due

-----------------------------------------------------------------------------
(* Sessions and settings *)

\* for (const transcript of previousHistory) newProcessor.processString(transcript, true)
PreservedMutant(newProcessor, previousHistory) == newProcessor
RECURSIVE preserved(_, _)
preserved(newProcessor, previousHistory) ==
  IF previousHistory = <<>> THEN newProcessor
  ELSE preserved(processStringState(newProcessor, Head(previousHistory), TRUE),
                 Tail(previousHistory))

\* the handlers of a session object after one more subscription to a stream
SubscribedMutant(streams, stream) == streams
subscribed(streams, stream) ==
  MapSet(streams, stream, IF stream \in DOMAIN streams THEN streams[stream] + 1 ELSE 1)

UnsupportedLanguagesMutant == {"Standard Arabic"}
unsupportedLanguages == {"Hebrew", "Standard Arabic"}
unsupportedCaption == <<"T", "h", "i", "s">>   \* "This language is not supported ..."

\* applySettings with the settings st read from the session
applySettings(sid, st) ==
  LET unsupported == st.modelName = "Even Realities G1" /\ st.targetLang \in unsupportedLanguages
      languageChanged ==
        \/ userSourceLanguages # "none" /\ userSourceLanguages # st.sourceLang
        \/ userTargetLanguages # "none" /\ userTargetLanguages # st.targetLang
      confidenceCalculator ==
        IF userConfidenceCalculators.exists THEN userConfidenceCalculators
        ELSE NewCalculator
      targetLocale == languageToLocale(st.targetLang)
      isChineseTarget == includesHanzi(st.targetLang) \/ languageSubtag(targetLocale) = "ja"
      numberOfLines == IF st.numberOfLines < 1 THEN defaultSettings.numberOfLines
                       ELSE st.numberOfLines
      empty == NewProcessor(st.lineWidth, numberOfLines, isChineseTarget)
      newProcessor ==
        IF ~languageChanged /\ userTranscriptProcessors.exists
        THEN preserved(empty, userTranscriptProcessors.finals)
        ELSE empty
  IN IF unsupported
     THEN /\ glasses' = showTextWall(sid, unsupportedCaption, warningDuration)
          /\ handlers' = [handlers EXCEPT ![sid] = IF live[sid] = "open" THEN @ ELSE EmptyMap]
          /\ UNCHANGED <<settingVars, languagePair, received, userSSEClients,
                         userConfidenceCalculators, userTranscriptProcessors>>
     ELSE /\ userSourceLanguages' = st.sourceLang
          /\ userTargetLanguages' = st.targetLang
          /\ userDisplayModes' = st.displayMode
          /\ userConfidenceHeuristics' = st.confidenceHeuristic
          /\ IF hasCM'
             THEN /\ languagePair' = [from |-> st.sourceLang, to |-> st.targetLang]
                  /\ received' = broadcastReceived(LanguageChangeEvent(st.sourceLang, st.targetLang))
                  /\ userSSEClients' = broadcastClients
             ELSE UNCHANGED <<languagePair, received, userSSEClients>>
          /\ userConfidenceCalculators' =
               IF languageChanged THEN resetState(confidenceCalculator)
               ELSE confidenceCalculator
          /\ userTranscriptProcessors' = processStringState(newProcessor, <<>>, TRUE)
          /\ glasses' = showTranscriptsToUser(sid, processStringFrame(newProcessor, <<>>, TRUE), TRUE)
          \* session.onTranslationForLanguage: one more handler of the stream
          \* on the session object; the object of a session that opens has
          \* none yet
          /\ handlers' = [handlers EXCEPT ![sid] =
                            subscribed(IF live[sid] = "open" THEN @ ELSE EmptyMap,
                                       <<languageToLocale(st.sourceLang), targetLocale>>)]

\* onSession
onSession(sid, st) ==
  /\ live[sid] # "open"
  /\ live' = [live EXCEPT ![sid] = "open"]
  /\ sessionDebouncers' = [sessionDebouncers EXCEPT ![sid] = NewDebouncer]
  /\ inactivityTimers' = [inactivityTimers EXCEPT ![sid] =
                            [exists |-> TRUE, armed |-> FALSE, due |-> 0,
                             lastActivityTime |-> now]]
  /\ activeUserSessions' = sid
  /\ hasCM' = TRUE
  /\ applySettings(sid, st)
  /\ obs' = [obs EXCEPT
               !.prefix = IF userConfidenceCalculators'.lastShownConfidentPrefix
                             = userConfidenceCalculators.lastShownConfidentPrefix
                          THEN @ ELSE NoPrefix,
               !.passed = [@ EXCEPT ![sid] = NoPassed],
               !.interimAt = [@ EXCEPT ![sid] = NoInterimAt],
               !.run = [@ EXCEPT !.clients = @ \ broken]]
  /\ UNCHANGED <<dispatching, now, debounceTimers, entries, entryOrder, currentInterimId,
                 entryCounter, broken>>

\* onSession when applySettings throws: at "read", session.settings.get
\* throws before anything is stored; at "show", the write to the glasses
\* throws, after the settings and the formatter were stored and
\* 'languageChange' was broadcast (the warning of an unsupported combination
\* is written before anything is stored).  The catch block stores the
\* defaults and subscribes to the default stream.
onSessionFallback(sid, st, at) ==
  /\ live[sid] # "open"
  /\ live' = [live EXCEPT ![sid] = "open"]
  /\ sessionDebouncers' = [sessionDebouncers EXCEPT ![sid] = NewDebouncer]
  /\ inactivityTimers' = [inactivityTimers EXCEPT ![sid] =
                            [exists |-> TRUE, armed |-> FALSE, due |-> 0,
                             lastActivityTime |-> now]]
  /\ activeUserSessions' = sid
  /\ hasCM' = TRUE
  /\ IF at = "show" /\ ~(st.modelName = "Even Realities G1"
                           /\ st.targetLang \in unsupportedLanguages)
     THEN /\ languagePair' = [from |-> st.sourceLang, to |-> st.targetLang]
          /\ received' = broadcastReceived(LanguageChangeEvent(st.sourceLang, st.targetLang))
          /\ userSSEClients' = broadcastClients
     ELSE UNCHANGED <<languagePair, received, userSSEClients>>
  /\ userTranscriptProcessors' =
       NewProcessor(defaultSettings.lineWidth, defaultSettings.numberOfLines, FALSE)
  /\ userSourceLanguages' = defaultSettings.transcribeLanguage
  /\ userTargetLanguages' = defaultSettings.translateLanguage
  /\ userDisplayModes' = defaultSettings.displayMode
  /\ userConfidenceCalculators' = NewCalculator
  /\ userConfidenceHeuristics' = defaultSettings.confidenceHeuristic
  /\ handlers' = [handlers EXCEPT ![sid] =
                    subscribed(EmptyMap,
                               <<languageToLocale(defaultSettings.transcribeLanguage),
                                 languageToLocale(defaultSettings.translateLanguage)>>)]
  /\ obs' = [obs EXCEPT
               !.prefix = NoPrefix,
               !.passed = [@ EXCEPT ![sid] = NoPassed],
               !.interimAt = [@ EXCEPT ![sid] = NoInterimAt],
               !.run = [@ EXCEPT !.clients = @ \ broken]]
  /\ UNCHANGED <<dispatching, now, debounceTimers, entries, entryOrder, currentInterimId,
                 entryCounter, broken, glasses>>

\* A settings value of an open session changes: the onValueChange handlers
\* run applySettings.
settingsChange(sid, st) ==
  /\ live[sid] = "open"
  /\ UNCHANGED <<dispatching, now, live, activeUserSessions, sessionDebouncers, debounceTimers,
                 inactivityTimers, hasCM, entries, entryOrder, currentInterimId,
                 entryCounter, broken>>
  /\ applySettings(sid, st)
  /\ obs' = [obs EXCEPT
               !.prefix = IF userConfidenceCalculators'.lastShownConfidentPrefix
                             = userConfidenceCalculators.lastShownConfidentPrefix
                          THEN @ ELSE NoPrefix,
               !.run = [@ EXCEPT !.clients = @ \ broken]]

\* clearTimeout(inactivityTimer.timer); this.inactivityTimers.delete(sessionId)
StoppedInactivityMutant(sid) == [inactivityTimers EXCEPT ![sid].exists = FALSE]
stoppedInactivityTimers(sid) == [inactivityTimers EXCEPT ![sid] = NoInactivityTimer]

\* onStop deletes the user's entry of every per-user map but userSSEClients
StoppedClientsMutant == {}
stoppedClients == userSSEClients

\* onStop
onStop(sid) ==
  /\ live[sid] = "open"
  /\ live' = [live EXCEPT ![sid] = "stopped"]
  /\ debounceTimers' = clearDebounceTimer(sid)
  /\ sessionDebouncers' = [sessionDebouncers EXCEPT ![sid] = NoDebouncer]
  /\ inactivityTimers' = stoppedInactivityTimers(sid)
  /\ activeUserSessions' = IF activeUserSessions = sid THEN 0 ELSE activeUserSessions
  /\ userTranscriptProcessors' = NoProcessor
  /\ userSourceLanguages' = "none"
  /\ userTargetLanguages' = "none"
  /\ userDisplayModes' = "none"
  /\ userConfidenceCalculators' = NoCalculator
  /\ userConfidenceHeuristics' = "none"
  /\ hasCM' = FALSE
  /\ entries' = EmptyMap
  /\ entryOrder' = <<>>
  /\ currentInterimId' = 0
  /\ entryCounter' = 0
  /\ languagePair' = [from |-> "Unknown", to |-> "Unknown"]
  /\ obs' = [obs EXCEPT
               !.returned = NoReturned,
               !.prefix = NoPrefix,
               !.passed = [@ EXCEPT ![sid] = NoPassed],
               !.interimAt = [@ EXCEPT ![sid] = NoInterimAt],
               !.seenFinal = {},
               !.run = NoRun]
  /\ userSSEClients' = stoppedClients
  /\ UNCHANGED <<dispatching, now, handlers, received, broken, glasses>>

-----------------------------------------------------------------------------
(* The /translation-events route *)

\* translationEvents for a request of the user: the response c is added to
\* the subscribers, then written 'connected' and the replay.
translationEvents(c) ==
  /\ received[c] = <<>>
  /\ userSSEClients' = userSSEClients \cup {c}
  /\ received' = [received EXCEPT ![c] =
                    <<ConnectedEvent>> \o
                    (IF hasCM THEN [i \in 1..Len(getAllEntries) |-> TranslationEvent(getAllEntries[i])]
                     ELSE <<>>)]
  /\ obs' = [obs EXCEPT
               !.run = [@ EXCEPT !.clients = @ \ {c}]]
  /\ UNCHANGED <<dispatching, now, sessionVars, sessionDebouncers, debounceTimers, inactivityTimers,
                 userTranscriptProcessors, settingVars, userConfidenceCalculators,
                 cmVars, broken, glasses>>

\* req.on('close'): removeSSEClient; the response is gone
closeConnection(c) ==
  /\ received[c] # <<>>
  /\ userSSEClients' = userSSEClients \ {c}
  /\ received' = [received EXCEPT ![c] = <<>>]
  /\ broken' = broken \ {c}
  /\ obs' = [obs EXCEPT
               !.run = [@ EXCEPT !.clients = @ \ {c}]]
  /\ UNCHANGED <<dispatching, now, sessionVars, sessionDebouncers, debounceTimers, inactivityTimers,
                 userTranscriptProcessors, settingVars, userConfidenceCalculators,
                 cmVars, glasses>>

\* The sink of a response fails: its next write() throws.
sinkBreaks(c) ==
  /\ c \in userSSEClients \ broken
  /\ broken' = broken \cup {c}
  /\ UNCHANGED <<dispatching, now, sessionVars, sessionDebouncers, debounceTimers, inactivityTimers,
                 userTranscriptProcessors, settingVars, userConfidenceCalculators,
                 cmVars, userSSEClients, received, glasses, obs>>

-----------------------------------------------------------------------------
(* The state after construction *)

StartTime == 4

\* no event is being dispatched
NoDispatch == [sid |-> 0, d |-> [isFinal |-> FALSE], left |-> 0]

Init ==
  /\ now = StartTime
  /\ live = [sid \in SessionIds |-> "never"]
  /\ activeUserSessions = 0
  /\ sessionDebouncers = [sid \in SessionIds |-> NoDebouncer]
  /\ debounceTimers = {}
  /\ inactivityTimers = [sid \in SessionIds |-> NoInactivityTimer]
  /\ handlers = [sid \in SessionIds |-> EmptyMap]
  /\ dispatching = NoDispatch
  /\ userTranscriptProcessors = NoProcessor
  /\ userSourceLanguages = "none"
  /\ userTargetLanguages = "none"
  /\ userDisplayModes = "none"
  /\ userConfidenceHeuristics = "none"
  /\ userConfidenceCalculators = NoCalculator
  /\ hasCM = FALSE
  /\ entries = EmptyMap
  /\ entryOrder = <<>>
  /\ currentInterimId = 0
  /\ entryCounter = 0
  /\ languagePair = [from |-> "Unknown", to |-> "Unknown"]
  /\ userSSEClients = {}
  /\ received = [c \in Clients |-> <<>>]
  /\ broken = {}
  /\ glasses = [text |-> <<>>, durationMs |-> 0, at |-> 0, sid |-> 0, n |-> 0]
  /\ obs = [returned |-> NoReturned, prefix |-> NoPrefix,
            passed |-> [sid \in SessionIds |-> NoPassed],
            interimAt |-> [sid \in SessionIds |-> NoInterimAt],
            seenFinal |-> {}, run |-> NoRun]

-----------------------------------------------------------------------------
(* Inputs *)

TextA == <<"a">>
TextB == <<"b">>
TextC == <<"c">>
TextD == <<".", "d">>       \* cleanTranscriptText strips the leading punctuation
EnUS == <<"en", "US">>
ZhCN == <<"zh", "CN">>

\* a TranslationData of the upstream
TranslationData(text, originalText, isFinal, didTranslate, from, to) ==
  [text |-> text, originalText |-> originalText, isFinal |-> isFinal,
   didTranslate |-> didTranslate, transcribeLanguage |-> from, translateLanguage |-> to]

Settings(sourceLang, targetLang, displayMode, heuristic) ==
  [sourceLang |-> sourceLang, targetLang |-> targetLang, displayMode |-> displayMode,
   lineWidth |-> "Medium", numberOfLines |-> 3, confidenceHeuristic |-> heuristic,
   modelName |-> "Simulated Glasses"]

\* the longest run of interim events of one utterance
MaxRun == 2

\* A translation event of a stream of an open session arrives: the session
\* object calls the handlers subscribed to the stream one after another.
\* This is the call of the first; nextHandler is the call of each other.
translation(sid, d) ==
  /\ live[sid] = "open"
  /\ dispatching.left = 0
  /\ d.isFinal \/ ~d.didTranslate \/ obs.run.k < MaxRun
  /\ \E stream \in DOMAIN handlers[sid] :
       /\ handlers[sid][stream] > 0
       /\ dispatching' = IF handlers[sid][stream] > 1
                         THEN [sid |-> sid, d |-> d, left |-> handlers[sid][stream] - 1]
                         ELSE NoDispatch
  /\ handleTranslation(sid, d)

\* A translation event of a stopped session arrives late: onStop has not
\* unsubscribed the session's handlers, and the handler of the event runs.
lateTranslation(sid, d) ==
  /\ live[sid] = "stopped"
  /\ dispatching.left = 0
  /\ \E stream \in DOMAIN handlers[sid] : handlers[sid][stream] > 0
  /\ dispatching' = NoDispatch
  /\ handleTranslation(sid, d)

\* The next handler of the event being dispatched is called.
nextHandler ==
  /\ dispatching.left > 0
  /\ dispatching' = IF dispatching.left > 1 THEN [dispatching EXCEPT !.left = @ - 1]
                    ELSE NoDispatch
  /\ handleTranslation(dispatching.sid, dispatching.d)

-----------------------------------------------------------------------------
(* SpecHub: one session of the user; its upstream sends translated finals  *)
(* and interims; two browser connections subscribe, close and fail.        *)

MaxCounter == 3      \* entries created in one life of the log
MaxReceived == 5     \* events one connection receives

HubSettings == Settings("English", "Chinese (Hanzi)", "translations", "None")

\* an interim of an utterance and its final, of another text
HubEvents ==
  {TranslationData(TextA, TextB, FALSE, TRUE, EnUS, ZhCN),
   TranslationData(TextB, TextA, TRUE, TRUE, EnUS, ZhCN)}

\* the bounds leave room for the event
HubRoom(d) ==
  /\ entryCounter < MaxCounter
  /\ \A c \in Clients : Len(received[c]) < MaxReceived

NextHub ==
  \/ onSession(1, HubSettings)
  \/ \E d \in HubEvents : HubRoom(d) /\ translation(1, d)
  \/ \E c \in Clients : Len(entryOrder) < MaxReceived - 1 /\ translationEvents(c)
  \/ \E c \in Clients : closeConnection(c)
  \/ \E c \in Clients : sinkBreaks(c)

SpecHub == Init /\ [][NextHub]_vars

\* the 'translation' events of a sequence of events
TranslationEventsOf(events) == SelectSeq(events, LAMBDA e : e.type = "translation")

\* the log as a replay sends it
ReplayOfLog == [i \in 1..Len(entryOrder) |-> TranslationEvent(entries[entryOrder[i]])]

\* C2: a step that subscribes a connection has sent it 'connected' followed
\* by one 'translation' event per entry of the log, in log order, and has
\* registered it; and every step that adds or updates an entry of the log
\* appends the 'translation' event of that entry to every registered
\* connection whose sink works: no entry falls between replay and live stream.
ReplayComplete ==
  [][\A c \in Clients :
       /\ (c \notin userSSEClients /\ c \in userSSEClients')
            => /\ received'[c] = <<ConnectedEvent>> \o ReplayOfLog
               /\ entries' = entries /\ entryOrder' = entryOrder
       /\ (c \in userSSEClients /\ c \notin broken)
            => \A id \in DOMAIN entries' :
                 (id \notin DOMAIN entries \/ entries'[id] # entries[id])
                   => received'[c] = Append(received[c], TranslationEvent(entries'[id]))
    ]_vars

\* connection c2 was replayed two entries and then received a live event
\* that c1, subscribed since the first entry was an interim, received too
ReplayedThenLive ==
  /\ Len(received["c2"]) = 4 /\ Len(received["c1"]) = 5
  /\ \A c \in Clients : \A i \in 2..Len(received[c]) : received[c][i].type = "translation"
  /\ received["c2"][2].data.id = 1 /\ received["c2"][3].data.id = 2
  /\ received["c2"][4].data.id = 3 /\ received["c1"][5] = received["c2"][4]
  /\ received["c1"][2].data.id = 1 /\ received["c1"][3].data.id = 1

\* C4: when a final addTranslation call ends a run of k >= 1 interim calls
\* that started with no current interim, the run has added exactly one
\* entry to the log, all k + 1 calls returned the same id, the stored entry
\* carries the final's texts with isFinal and isNewUtterance true,
\* currentInterimId is cleared, and every connection subscribed throughout
\* the run has received k + 1 'translation' events, all with that id.
UtterancePromotion ==
  obs.run.done =>
    LET r == obs.run
        e == r.id
        pushed == Append(r.order0, e)
    IN /\ r.k >= 1
       /\ r.sameId /\ obs.returned.entry.id = e
       /\ entryCounter = r.counter0 + 1
       /\ entryOrder = IF Len(pushed) > maxEntries THEN Tail(pushed) ELSE pushed
       /\ e \in DOMAIN entries
       /\ entries[e] = obs.returned.entry
       /\ entries[e].originalText = obs.returned.args[1]
       /\ entries[e].translatedText = obs.returned.args[2]
       /\ entries[e].isFinal
       /\ "isNewUtterance" \in DOMAIN entries[e] /\ entries[e].isNewUtterance
       /\ currentInterimId = 0
       /\ \A c \in r.clients :
            LET got == SubSeq(received[c], r.lens[c] + 1, Len(received[c]))
            IN /\ Len(got) = r.k + 1
               /\ \A i \in 1..Len(got) : got[i].type = "translation" /\ got[i].data.id = e

\* a run of two interims and a final has ended with both connections
\* subscribed throughout
RunPromoted == obs.run.done /\ obs.run.k = 2 /\ obs.run.clients = Clients

\* C6: a handleTranslation step whose addTranslation call returned an entry
\* appends the 'translation' event of that entry exactly once to every
\* connection registered at that moment (a connection whose write throws is
\* removed instead) and to no other; the entry sent is the one stored; and
\* no other step than a subscription or a close changes the 'translation'
\* events a connection has received.
ExactlyOnceBroadcast ==
  [][IF \E d \in HubEvents : translation(1, d)
     THEN /\ obs'.returned.has
          /\ entries'[obs'.returned.entry.id] = obs'.returned.entry
          /\ userSSEClients' = userSSEClients \ broken
          /\ \A c \in Clients :
               received'[c] = IF c \in userSSEClients /\ c \notin broken
                              THEN Append(received[c], TranslationEvent(obs'.returned.entry))
                              ELSE received[c]
     ELSE \A c \in Clients :
            (received[c] # <<>> /\ received'[c] # <<>>)
              => TranslationEventsOf(received'[c]) = TranslationEventsOf(received[c])
    ]_vars

\* both connections are registered and each holds, as its last two events,
\* an interim and its update: the update reached both by the live broadcast
BroadcastToBoth ==
  /\ userSSEClients = Clients /\ broken = {}
  /\ \A c \in Clients :
       /\ Len(received[c]) >= 3
       /\ received[c][Len(received[c])] = TranslationEvent(obs.returned.entry)
       /\ received[c][Len(received[c]) - 1].type = "translation"
       /\ received[c][Len(received[c]) - 1].data.id = obs.returned.entry.id

\* C19: a step that broadcasts a 'translation' event removes from the
\* subscribers each one whose sink fails, writes it nothing, and appends
\* the event to every other subscriber, which stays subscribed; and a
\* connection removed for a failed write is written nothing afterwards.
FailedSubscriberRemoved ==
  [][/\ (\E d \in HubEvents : translation(1, d))
          => \A c \in userSSEClients :
               IF c \in broken
               THEN c \notin userSSEClients' /\ received'[c] = received[c]
               ELSE /\ c \in userSSEClients'
                    /\ received'[c] = Append(received[c], TranslationEvent(obs'.returned.entry))
     /\ \A c \in broken \ userSSEClients :
          (received[c] # <<>> /\ received'[c] # <<>>) => received'[c] = received[c]
    ]_vars

\* connection c2 was removed for a failed write of an event that connection
\* c1, still subscribed, holds as its last
FailedRemovedOtherServed ==
  /\ userSSEClients = {"c1"} /\ broken = {"c2"}
  /\ Len(received["c2"]) >= 2 /\ Len(received["c1"]) >= 3
  /\ obs.returned.has
  /\ received["c1"][Len(received["c1"])] = TranslationEvent(obs.returned.entry)
  /\ \A i \in 1..Len(received["c2"]) :
       received["c2"][i] # TranslationEvent(obs.returned.entry)

-----------------------------------------------------------------------------
(* SpecClear: one session of the user, opened, stopped and opened again;   *)
(* its upstream sends translated finals and interims; periods of           *)
(* inactivity pass and the inactivity timer clears the log; one browser    *)
(* connection subscribes and closes.                                       *)

MaxClears == 1       \* inactivity periods that pass

NextClear ==
  \/ Len(received["c1"]) < MaxReceived /\ onSession(1, HubSettings)
  \/ \E d \in HubEvents : HubRoom(d) /\ translation(1, d)
  \/ \E t \in debounceTimers : fireDebounceTimer(t)
  \/ fireInactivityTimer(1)
  \/ /\ now < StartTime + MaxClears * inactivityDelay
     /\ inactivityTimers[1].armed
     /\ Tick(inactivityDelay)
  \/ onStop(1)
  \/ Len(entryOrder) < MaxReceived - 1 /\ translationEvents("c1")
  \/ closeConnection("c1")

SpecClear == Init /\ [][NextClear]_vars

\* C3: an id that the log has returned with isFinal = true is never stored
\* with isFinal = false afterwards.
FinalMonotone ==
  \A id \in DOMAIN entries : id \in obs.seenFinal => entries[id].isFinal

\* C14: the inactivity clear leaves the entry counter as it is, and a step
\* that creates an entry gives it the id after the counter, so that the
\* first entry after a clear at counter c is entry-(c+1).
CounterSurvivesClear ==
  [][/\ fireInactivityTimer(1) => entryCounter' = entryCounter
     /\ ((\E d \in HubEvents : translation(1, d)) /\ currentInterimId = 0)
          => /\ entryCounter' = entryCounter + 1
             /\ obs'.returned.entry.id = entryCounter + 1
    ]_vars

\* C15: in the events a connection has received, a 'translation' event
\* that follows a final 'translation' event of the same id (another
\* utterance under that id) has a 'clear' event between the two.
IdsUniqueWhileConnected ==
  \A c \in Clients :
    \A i, j \in 1..Len(received[c]) :
      (/\ i < j
       /\ received[c][i].type = "translation" /\ received[c][j].type = "translation"
       /\ received[c][i].data.id = received[c][j].data.id
       /\ received[c][i].data.isFinal)
        => \E k \in (i + 1)..(j - 1) : received[c][k].type = "clear"

\* C18: a step that stops the session leaves the subscriber set and what
\* each connection has received as they are; and every step that logs a
\* translation event, in whichever session of the user, appends the
\* 'translation' event of the entry to every subscriber.
StopKeepsSubscribers ==
  [][/\ (live[1] = "open" /\ live'[1] = "stopped")
          => userSSEClients' = userSSEClients /\ received' = received
     /\ (\E d \in HubEvents : translation(1, d))
          => \A c \in Clients :
               received[c] # <<>>
                 => /\ c \in userSSEClients
                    /\ received'[c] = Append(received[c], TranslationEvent(obs'.returned.entry))
    ]_vars

\* connection c1 holds a 'translation' event, then the 'languageChange'
\* event of the session that opened after the stop, then a 'translation'
\* event of that session
SubscriberSurvivesStop ==
  /\ "c1" \in userSSEClients
  /\ \E i, j, k \in 1..Len(received["c1"]) :
       /\ i < j /\ j < k
       /\ received["c1"][i].type = "translation"
       /\ received["c1"][j].type = "languageChange"
       /\ received["c1"][k].type = "translation"
       /\ received["c1"][k] = TranslationEvent(obs.returned.entry)

-----------------------------------------------------------------------------
(* SpecDebounce: one session whose upstream sends untranslated finals and  *)
(* interims of two texts while time passes in steps of 100 ms; a debounce  *)
(* timer may run late.  Under the display mode "everything" every event    *)
(* reaches the debouncer, under "translations" none does.                  *)

MaxTicks == 10       \* steps of 100 ms that pass
MaxCaptions == 1     \* finals in the caption history

DebounceSettings ==
  {Settings("English", "Chinese (Hanzi)", m, "None") : m \in {"everything", "translations"}}

DebounceEvents ==
  {TranslationData(t, t, f, FALSE, EnUS, EnUS) : t \in {TextA, TextB}, f \in BOOLEAN}

\* the bounds leave room for the event, and for the timer it may start
DebounceRoom(d) ==
  /\ now + debounceDelay <= StartTime + MaxTicks
  /\ d.isFinal => Len(userTranscriptProcessors.finals) < MaxCaptions

NextDebounce ==
  \/ \E st \in DebounceSettings : onSession(1, st)
  \/ \E d \in DebounceEvents : DebounceRoom(d) /\ translation(1, d)
  \/ \E t \in debounceTimers : fireDebounceTimer(t)
  \/ now < StartTime + MaxTicks /\ Tick(1)
  \/ onStop(1)

SpecDebounce == Init /\ [][NextDebounce]_vars

\* The event loop runs: time passes and a due timer fires.
FairSpecDebounce ==
  /\ SpecDebounce
  /\ WF_vars(now < StartTime + MaxTicks /\ Tick(1))
  /\ WF_vars(\E t \in debounceTimers : fireDebounceTimer(t))

\* C8: any two consecutive interim writes of a session are at least
\* debounceDelay apart.
InterimWritesApart ==
  \A sid \in SessionIds :
    obs.interimAt[sid][1] >= 0
      => obs.interimAt[sid][2] - obs.interimAt[sid][1] >= debounceDelay

\* two interim writes exactly debounceDelay apart, the second by a timer
InterimWritesAtDelay ==
  /\ obs.interimAt[1][1] >= 0
  /\ obs.interimAt[1][2] - obs.interimAt[1][1] = debounceDelay
  /\ now = obs.interimAt[1][2]
  /\ inactivityTimers[1].lastActivityTime < now

\* C9: a handleTranslation step of a final event that reaches the debouncer
\* writes the final's frame to the glasses in that step, with the time of
\* the step and the duration of a final, whatever the time of the previous
\* write; and after the step no debounce timer of the session is pending.
FinalsNotDebounced ==
  [][\A d \in DebounceEvents :
       (d.isFinal /\ displayGate(userDisplayModes, d.didTranslate) /\ translation(1, d))
         => /\ glasses'.n # glasses.n
            /\ glasses'.at = now /\ glasses'.sid = 1
            /\ glasses'.durationMs = finalDuration
            /\ obs'.passed[1].isFinal /\ obs'.passed[1].written
            /\ glasses'.text = cleanTranscriptText(obs'.passed[1].transcript)
            /\ \A t \in debounceTimers' : t.sid # 1
    ]_vars

\* a final was written 100 ms after an interim write
FinalWrittenAtOnce ==
  /\ obs.passed[1].isFinal /\ obs.passed[1].written
  /\ glasses.durationMs = finalDuration /\ glasses.at = now
  /\ obs.interimAt[1][2] = now - 1
  /\ debounceTimers = {}

\* the latest frame that reached the debouncer of the session waits to be written
Unwritten(sid) == obs.passed[sid].has /\ ~obs.passed[sid].written

\* C10: at most one debounce timer of a session is pending; a timer is
\* pending exactly while the latest frame that reached the debouncer is an
\* interim not yet written, and it carries that frame; and such a frame is
\* eventually written unless a later frame replaces it or the session stops.
LatestInterimSurvives ==
  /\ [](\A sid \in SessionIds :
         LET pending == {t \in debounceTimers : t.sid = sid}
         IN /\ Cardinality(pending) <= 1
            /\ (pending # {}) = Unwritten(sid)
            /\ \A t \in pending :
                 ~obs.passed[sid].isFinal /\ t.transcript = obs.passed[sid].transcript)
  /\ \A f \in {TextA, TextB} :
       (Unwritten(1) /\ obs.passed[1].transcript = f)
         ~> \/ obs.passed[1].written /\ obs.passed[1].transcript = f
               /\ glasses.text = cleanTranscriptText(f) /\ glasses.sid = 1
            \/ obs.passed[1].transcript # f
            \/ live[1] # "open"

\* a throttled interim replaced an earlier one and was written by its timer
TrailingInterimWritten ==
  /\ obs.passed[1].has /\ ~obs.passed[1].isFinal /\ obs.passed[1].written
  /\ obs.passed[1].transcript = TextB
  /\ glasses.text = TextB /\ glasses.at = now
  /\ inactivityTimers[1].lastActivityTime <= now - debounceDelay
  /\ sessionDebouncers[1].lastSentTime = now
  /\ obs.interimAt[1][1] >= 0

-----------------------------------------------------------------------------
(* SpecS5: the scenario S5.  One session opens; after an idle period its   *)
(* upstream sends five interims and no final, 0, 100, 200, 300 and 500 ms  *)
(* after the first, each of any of four texts; the upstream may fall       *)
(* silent after any arrival, and timers fire when they are due.            *)

S5Arrivals == <<0, 1, 2, 3, 5>>
MaxS5Ticks == 9      \* steps of 100 ms that pass after the first arrival

S5Events == {TranslationData(t, t, FALSE, FALSE, EnUS, EnUS) : t \in {TextA, TextB, TextC, TextD}}

\* the arrivals handled so far: the handler records the time of each
S5Handled ==
  IF ~inactivityTimers[1].armed THEN 0
  ELSE CHOOSE k \in 1..Len(S5Arrivals) :
         inactivityTimers[1].lastActivityTime = StartTime + S5Arrivals[k]

\* the next arrival is due now
S5ArrivalDue ==
  /\ S5Handled < Len(S5Arrivals)
  /\ now = StartTime + S5Arrivals[S5Handled + 1]

NextS5 ==
  \/ \E st \in DebounceSettings : onSession(1, st)
  \/ \E d \in S5Events : S5ArrivalDue /\ translation(1, d)
  \/ \E t \in debounceTimers : fireDebounceTimer(t)
  \/ /\ now < StartTime + MaxS5Ticks
     /\ live[1] = "open" /\ TimersPrompt(1)
     /\ Tick(1)

SpecS5 == Init /\ [][NextS5]_vars

\* no arrival of the scenario has been missed
S5OnSchedule ==
  S5Handled = Len(S5Arrivals) \/ now <= StartTime + S5Arrivals[S5Handled + 1]

\* the scenario runs, on schedule, under the display mode that shows every
\* event
S5Shown == live[1] = "open" /\ userDisplayModes = "everything" /\ S5OnSchedule

-----------------------------------------------------------------------------
(* SpecStabilizer: one session with a confidence heuristic, toward English *)
(* or toward Chinese; its upstream sends untranslated interims of a few    *)
(* texts, and finals; time passes in steps longer than decayTime.          *)

MaxStable == 3       \* times a word is seen again within one utterance
DecayStep == 45      \* a step of time, longer than decayTime: 4500 ms
MaxDecays == 1       \* steps of time that pass

StabilizerSettings ==
  {Settings("English", t, "everything", h) :
     t \in {"English", "Chinese (Hanzi)"}, h \in {"WordStability"}}

\* the texts of a session toward the language
StabilizerTexts(targetLang) ==
  IF includesHanzi(targetLang) THEN {<<"H1">>, <<"H1", "H2">>, <<"H2">>}
  ELSE {<<"a">>, <<"a", " ", "b">>, <<"b">>}

StabilizerEvents ==
  {TranslationData(t, t, FALSE, FALSE, EnUS, EnUS) : t \in StabilizerTexts(userTargetLanguages)}
    \cup {TranslationData(t, t, TRUE, FALSE, EnUS, EnUS) : t \in {<<"a", " ", "b">>}}

\* the bounds leave room for the event
StabilizerRoom(d) ==
  /\ d.isFinal => Len(userTranscriptProcessors.finals) < MaxCaptions
  /\ \A k \in 1..Len(userConfidenceCalculators.wordStabilityBuffer) :
       FLt(userConfidenceCalculators.wordStabilityBuffer[k].stableCount, FInt(MaxStable))

NextStabilizer ==
  \/ \E st \in StabilizerSettings : onSession(1, st)
  \/ \E d \in StabilizerEvents : StabilizerRoom(d) /\ translation(1, d)
  \/ \E t \in debounceTimers : fireDebounceTimer(t)
  \/ /\ now < StartTime + MaxDecays * DecayStep
     /\ live[1] = "open"
     /\ Tick(DecayStep)

SpecStabilizer == Init /\ [][NextStabilizer]_vars

\* the tokens of a prefix, the empty string counting as none
TokenCount(text, isHanzi) ==
  Len(SelectSeq(splitWords(text, isHanzi), LAMBDA w : w # <<>>))

\* C1: from one call of getNonShrinkingConfidentPrefix to the next, with no
\* reset of the calculator between them, the number of tokens of the
\* returned prefix does not decrease.
NonShrinkingPrefix ==
  [][(obs.prefix.has /\ obs'.prefix.has)
       => LET isHanzi == includesHanzi(userTargetLanguages)
          IN TokenCount(obs'.prefix.text, isHanzi) >= TokenCount(obs.prefix.text, isHanzi)
    ]_vars

-----------------------------------------------------------------------------
(* SpecLog: one session whose upstream sends translated finals and interims *)
(* of one text; the log fills up to its capacity and beyond.               *)

MaxLogCounter == 503

LogEvents ==
  {TranslationData(TextA, TextB, f, TRUE, ZhCN, EnUS) : f \in BOOLEAN}

NextLog ==
  \/ onSession(1, Settings("Chinese (Hanzi)", "English", "translations", "None"))
  \/ \E d \in LogEvents : entryCounter < MaxLogCounter /\ translation(1, d)

SpecLog == Init /\ [][NextLog]_vars

\* C5: the log never holds more than maxEntries entries, in the order list
\* and in the map alike; the map holds exactly the ids of the order list;
\* and the order list is the newest ids in creation order, so that each
\* eviction removed the oldest entry from both.
BoundedLog ==
  /\ Len(entryOrder) <= maxEntries
  /\ Cardinality(DOMAIN entries) <= maxEntries
  /\ DOMAIN entries = {entryOrder[i] : i \in 1..Len(entryOrder)}
  /\ \A i \in 1..Len(entryOrder) : entryOrder[i] = entryCounter - Len(entryOrder) + i

\* the log is full and entries have been evicted
LogEvicted == Len(entryOrder) = maxEntries /\ entryCounter >= maxEntries + 2

-----------------------------------------------------------------------------
(* SpecReverse: one session of a user whose target is English; its         *)
(* upstream sends translated finals and interims in both directions,       *)
(* toward English and toward Chinese, while time passes in steps of        *)
(* 100 ms.                                                                 *)

ReverseSettings ==
  {Settings("Chinese", "English", m, "None") : m \in {"everything", "translations"}}

ReverseEvents ==
  {TranslationData(TextA, TextB, f, TRUE, l[1], l[2]) :
     f \in BOOLEAN, l \in {<<ZhCN, EnUS>>, <<EnUS, ZhCN>>}}

\* the event is a translation toward another language than the user's target
IsReverse(d) ==
  /\ d.didTranslate
  /\ userTargetLanguages # "none"
  /\ languageSubtag(d.translateLanguage) # languageSubtag(languageToLocale(userTargetLanguages))

NextReverse ==
  \/ \E st \in ReverseSettings : onSession(1, st)
  \/ \E d \in ReverseEvents : HubRoom(d) /\ DebounceRoom(d) /\ translation(1, d)
  \/ \E t \in debounceTimers : fireDebounceTimer(t)
  \/ now < StartTime + MaxTicks /\ Tick(1)

SpecReverse == Init /\ [][NextReverse]_vars

\* C11: a handleTranslation step of a translated event whose target language
\* is not the user's writes nothing to the glasses and starts no debounce
\* timer, and the log returns an entry that carries the languages of the
\* event.
ReverseNotOnGlasses ==
  [][\A d \in ReverseEvents :
       (IsReverse(d) /\ translation(1, d))
         => /\ glasses' = glasses
            /\ debounceTimers' = debounceTimers
            /\ obs'.returned.has
            /\ obs'.returned.entry.originalLanguage = localeToLanguage(d.transcribeLanguage)
            /\ obs'.returned.entry.translatedLanguage = localeToLanguage(d.translateLanguage)
            /\ entries'[obs'.returned.entry.id] = obs'.returned.entry
    ]_vars

-----------------------------------------------------------------------------
(* SpecSessions: two sessions of the user, each opened and stopped, the    *)
(* second possibly while the first is open; their upstreams send           *)
(* untranslated finals and interims, all shown; time passes in steps of    *)
(* half the inactivity delay and timers fire when due or later.            *)

IdleStep == 200      \* a step of time: 20 s
MaxIdleSteps == 2    \* steps of time that pass

SessionsSettings == Settings("English", "Chinese (Hanzi)", "everything", "None")

SessionsEvents == {TranslationData(TextA, TextA, f, FALSE, EnUS, EnUS) : f \in BOOLEAN}

\* the bounds leave room for the event
SessionsRoom(d) == d.isFinal => Len(userTranscriptProcessors.finals) < MaxCaptions

NextSessions ==
  \/ \E sid \in SessionIds : onSession(sid, SessionsSettings)
  \/ \E sid \in SessionIds : \E d \in SessionsEvents : SessionsRoom(d) /\ translation(sid, d)
  \/ \E t \in debounceTimers : fireDebounceTimer(t)
  \/ \E sid \in SessionIds : fireInactivityTimer(sid)
  \/ now < StartTime + MaxIdleSteps * IdleStep /\ Tick(IdleStep)
  \/ \E sid \in SessionIds : onStop(sid)

SpecSessions == Init /\ [][NextSessions]_vars

\* C13: a translation event of a session leaves the session's inactivity
\* timer pending and due inactivityDelay later; and an inactivity timer
\* fires, and clears, only when inactivityDelay has passed since the last
\* translation event of every session of the user whose timer is pending.
IdleClearOnly ==
  [][\A sid \in SessionIds :
       /\ (\E d \in SessionsEvents : translation(sid, d))
            => /\ inactivityTimers'[sid].armed
               /\ inactivityTimers'[sid].due = now + inactivityDelay
       /\ (fireInactivityTimer(sid) /\ userTranscriptProcessors.exists)
            => \A s \in SessionIds :
                 inactivityTimers[s].armed
                   => inactivityTimers[s].lastActivityTime + inactivityDelay <= now
    ]_vars

\* C16: a step that opens a session makes it the user's active session and
\* leaves no debounce timer and no inactivity timer of another session
\* pending.
SessionSupersedes ==
  [][\A sid \in SessionIds :
       (live[sid] # "open" /\ live'[sid] = "open")
         => /\ activeUserSessions' = sid
            /\ \A s \in SessionIds \ {sid} :
                 /\ \A t \in debounceTimers' : t.sid # s
                 /\ ~inactivityTimers'[s].armed
    ]_vars

-----------------------------------------------------------------------------
(* SpecIdle: two sessions of the user, opened and stopped; the upstream of *)
(* session 1 sends translated finals, that of session 2 is silent;         *)
(* periods of inactivity pass and the inactivity timer fires; two browser  *)
(* connections subscribe and their sinks may fail.                         *)

IdleEvent == TranslationData(TextB, TextA, TRUE, TRUE, EnUS, ZhCN)

MaxIdleReceived == 3  \* events one connection receives
MaxIdleEntries == 1   \* entries of the log

\* the bounds leave room for one more event on every connection
IdleRoom == \A c \in Clients : Len(received[c]) < MaxIdleReceived

NextIdle ==
  \/ \E sid \in SessionIds : IdleRoom /\ onSession(sid, HubSettings)
  \/ IdleRoom /\ Len(entryOrder) < MaxIdleEntries /\ translation(1, IdleEvent)
  \/ IdleRoom /\ fireInactivityTimer(1)
  \/ /\ now < StartTime + MaxClears * inactivityDelay
     /\ inactivityTimers[1].armed
     /\ Tick(inactivityDelay)
  \/ \E sid \in SessionIds : onStop(sid)
  \/ \E c \in Clients : Len(entryOrder) < MaxIdleReceived - 1 /\ translationEvents(c)
  \/ \E c \in Clients : sinkBreaks(c)

SpecIdle == Init /\ [][NextIdle]_vars

\* the step is the fire of the inactivity timer of the session: the timer
\* was pending and is not, and the session stays open
IdleFire(sid) ==
  /\ inactivityTimers[sid].armed /\ ~inactivityTimers'[sid].armed
  /\ live[sid] = "open" /\ live'[sid] = "open"

\* C12 as stated: the fire of an inactivity timer leaves the caption history
\* and the log empty, appends one 'clear' event to every subscriber, writes
\* one blank frame to the glasses and leaves the subscriber set as it was.
IdleFireKeepsSubscribers ==
  [][\A sid \in SessionIds :
       IdleFire(sid)
         => /\ userTranscriptProcessors'.finals = <<>>
            /\ entryOrder' = <<>> /\ entries' = EmptyMap
            /\ \A c \in userSSEClients : received'[c] = Append(received[c], ClearEvent)
            /\ glasses'.n # glasses.n /\ glasses'.text = <<>>
            /\ userSSEClients' = userSSEClients
    ]_vars

\* C12, amended: the fire of an inactivity timer, when the user's caption
\* formatter exists, empties its history and writes one blank frame to the
\* glasses; when the user's log exists too, the fire empties it, appends
\* one 'clear' event to every subscriber whose sink works and to no other,
\* and removes from the subscribers exactly those whose sink fails.  When
\* the formatter does not exist the fire changes nothing else.
IdleFireClears ==
  [][\A sid \in SessionIds :
       IdleFire(sid)
         => IF userTranscriptProcessors.exists
            THEN /\ userTranscriptProcessors'.exists
                 /\ userTranscriptProcessors'.finals = <<>>
                 /\ glasses'.n # glasses.n /\ glasses'.text = <<>>
                 /\ glasses'.durationMs = clearDuration /\ glasses'.sid = sid
                 /\ IF hasCM
                    THEN /\ entryOrder' = <<>> /\ entries' = EmptyMap
                         /\ \A c \in Clients :
                              received'[c] = IF c \in userSSEClients \ broken
                                             THEN Append(received[c], ClearEvent)
                                             ELSE received[c]
                         /\ userSSEClients' = userSSEClients \ broken
                    ELSE UNCHANGED <<entries, entryOrder, received, userSSEClients>>
            ELSE UNCHANGED <<userTranscriptProcessors, glasses, entries, entryOrder,
                             received, userSSEClients>>
    ]_vars

\* an inactivity timer has fired on a log of one entry: connection c1 holds
\* the 'clear' event after the entry's event, connection c2, whose sink had
\* failed, holds no 'clear' event and is no subscriber any more, the log is
\* empty and the glasses show the blank frame
IdleFired ==
  /\ userSSEClients = {"c1"} /\ broken = {"c2"}
  /\ Len(received["c1"]) >= 3
  /\ received["c1"][Len(received["c1"])] = ClearEvent
  /\ received["c1"][Len(received["c1"]) - 1].type = "translation"
  /\ received["c2"] # <<>>
  /\ \A i \in 1..Len(received["c2"]) : received["c2"][i] # ClearEvent
  /\ entryOrder = <<>> /\ hasCM
  /\ glasses.text = <<>> /\ glasses.durationMs = clearDuration /\ glasses.at = now

\* the event of the hub that the step broadcasts, if it is e: the entry a
\* translation event stored, the clear of an inactivity fire, or the
\* language pair of a session that opens
BroadcastOf(e) ==
  \/ /\ e.type = "translation"
     /\ translation(1, IdleEvent)
     /\ e = TranslationEvent(obs'.returned.entry)
  \/ e = ClearEvent /\ IdleFire(1)
  \/ /\ e.type = "languageChange"
     /\ \E sid \in SessionIds : live[sid] # "open" /\ live'[sid] = "open"
     /\ e.data = languagePair'

\* C20: a step changes what a subscriber has received only by appending one
\* event at its end, the event the hub broadcasts in that step, and it
\* appends that same event to every subscriber whose sink works: each
\* subscriber holds the events broadcast since it joined in the order of
\* the steps that handled them.
SubscriberOrder ==
  [][\A c \in userSSEClients :
       received'[c] # received[c]
         => /\ received[c] # <<>>
            /\ received'[c] = Append(received[c], received'[c][Len(received'[c])])
            /\ BroadcastOf(received'[c][Len(received'[c])])
            /\ \A o \in userSSEClients \ broken :
                 received'[o] = Append(received[o], received'[c][Len(received'[c])])
    ]_vars

\* both connections, subscribed before the session opened, hold the same
\* two events after 'connected': the 'languageChange' of the opening, then
\* the 'translation' of the entry the log holds
OrderedOnBoth ==
  /\ userSSEClients = Clients
  /\ received["c1"] = received["c2"]
  /\ Len(received["c1"]) = 3
  /\ received["c1"][2].type = "languageChange"
  /\ received["c1"][3] = TranslationEvent(obs.returned.entry)
  /\ obs.returned.has

-----------------------------------------------------------------------------
(* SpecSettings: one session on Even Realities G1 glasses with the         *)
(* WordStability heuristic; its settings change between two target         *)
(* languages, the two display modes and the unsupported target Hebrew;     *)
(* its upstream sends finals and interims; one browser connection          *)
(* subscribes.  The session object calls the handlers of an event one      *)
(* after another: nothing else runs while an event is being dispatched.    *)

MaxHandlers == 2         \* subscriptions of the session object
MaxSettingsFinals == 1   \* captions in the formatter's history
MaxSettingsCounter == 1  \* entries created in the log
MaxSettingsStable == 1   \* times a word is seen again within one utterance

OnG1(st) == [st EXCEPT !.modelName = "Even Realities G1"]

SettingsChoices ==
  {OnG1(Settings("English", "Chinese (Hanzi)", m, "WordStability")) :
     m \in {"everything", "translations"}}
    \cup {OnG1(Settings("English", t, "everything", "WordStability")) :
             t \in {"English", "Hebrew"}}

\* applySettings returns early on these
Unsupported(st) ==
  st.modelName = "Even Realities G1" /\ st.targetLang \in unsupportedLanguages

SettingsEvents ==
  {TranslationData(TextA, TextB, TRUE, TRUE, EnUS, ZhCN),
   TranslationData(TextB, TextB, TRUE, FALSE, EnUS, EnUS),
   TranslationData(TextA, TextA, FALSE, FALSE, EnUS, EnUS)}

\* the subscriptions of a session object
RECURSIVE Subscriptions(_)
Subscriptions(streams) ==
  IF DOMAIN streams = {} THEN 0
  ELSE LET k == CHOOSE k \in DOMAIN streams : TRUE
       IN streams[k] + Subscriptions(MapDelete(streams, k))

\* the bounds leave room for one more subscription
SettingsRoom(st) ==
  \/ Unsupported(st)
  \/ Subscriptions(handlers[1]) < MaxHandlers

\* the bounds leave room for the event
SettingsEventRoom(d) ==
  /\ d.didTranslate => entryCounter < MaxSettingsCounter
  /\ d.isFinal => Len(userTranscriptProcessors.finals) < MaxSettingsFinals
  /\ \A k \in 1..Len(userConfidenceCalculators.wordStabilityBuffer) :
       FLt(userConfidenceCalculators.wordStabilityBuffer[k].stableCount,
           FInt(MaxSettingsStable))

NextSettings ==
  \/ \E st \in SettingsChoices : dispatching.left = 0 /\ onSession(1, st)
  \/ \E st \in SettingsChoices :
       dispatching.left = 0 /\ SettingsRoom(st) /\ settingsChange(1, st)
  \/ \E d \in SettingsEvents : SettingsEventRoom(d) /\ translation(1, d)
  \/ nextHandler
  \/ dispatching.left = 0 /\ translationEvents("c1")

SpecSettings == Init /\ [][NextSettings]_vars

\* the events of a type among those a step writes to a connection
SentOf(c, type) ==
  SelectSeq(SubSeq(received'[c], Len(received[c]) + 1, Len(received'[c])),
            LAMBDA e : e.type = type)

\* the settings differ from the stored ones in a language or the display mode
Changes(st) ==
  <<st.sourceLang, st.targetLang, st.displayMode>>
    # <<userSourceLanguages, userTargetLanguages, userDisplayModes>>

\* C21: a settings change of a session whose languages are stored, to a
\* supported combination, broadcasts 'languageChange' exactly once when it
\* changes the source or the target language and not at all when it changes
\* neither, and it broadcasts no 'clear'.
LanguageChangeOnChange ==
  [][\A st \in SettingsChoices :
       (/\ settingsChange(1, st)
        /\ ~Unsupported(st)
        /\ userSourceLanguages # "none"
        /\ Changes(st)
        /\ "c1" \in userSSEClients \ broken)
         => /\ Len(SentOf("c1", "languageChange")) =
                 IF \/ st.sourceLang # userSourceLanguages
                    \/ st.targetLang # userTargetLanguages
                 THEN 1 ELSE 0
            /\ SentOf("c1", "clear") = <<>>
    ]_vars

HandledOnce ==
  [][\A d \in SettingsEvents : translation(1, d) => dispatching'.left = 0]_vars

\* C25: applySettings, run on G1 glasses with the target language Hebrew by
\* a session that opens or by a settings change, writes the warning caption
\* to the glasses once, for 10 s, makes no subscription, and leaves the
\* stored settings, the caption formatter, the confidence state, the log
\* and the subscribers' streams unchanged.
UnsupportedWarnsOnly ==
  [][\A st \in SettingsChoices :
       (/\ onSession(1, st) \/ settingsChange(1, st)
        /\ st.modelName = "Even Realities G1"
        /\ st.targetLang = "Hebrew")
         => /\ glasses'.text = unsupportedCaption
            /\ glasses'.durationMs = warningDuration
            /\ glasses'.n # glasses.n
            /\ handlers'[1] = IF live[1] = "open" THEN handlers[1] ELSE EmptyMap
            /\ UNCHANGED <<settingVars, userTranscriptProcessors, userConfidenceCalculators,
                           entries, entryOrder, currentInterimId, entryCounter,
                           languagePair, received>>
    ]_vars

\* the warning is on the glasses of a session that has shown a caption and
\* has a log entry, and the stored target language is still the earlier one
WarnedWithHistory ==
  /\ live[1] = "open"
  /\ glasses.text = unsupportedCaption
  /\ glasses.durationMs = warningDuration
  /\ userTargetLanguages = "Chinese (Hanzi)"
  /\ userTranscriptProcessors.finals # <<>>
  /\ entryOrder # <<>>

-----------------------------------------------------------------------------
(* SpecAuth: the /translation-events route with the request's              *)
(* authentication.  The user of the model wears the glasses; requests come *)
(* with or without the SDK's authUserId and with a valid, a forged or a    *)
(* malformed token or none, in production or in development mode.          *)

UserId == "user"         \* the user of the model
NoUser == "none"         \* undefined / null userId
DevUser == "dev-user"

\* sha256(userId, sha256(apiKey)): equal hashes have equal inputs
frontendHash(userId, apiKey) == <<userId, <<apiKey>>>>

\* a frontend token "userId:hash", the number of its ':'-separated parts
FrontendToken(userId, hash, parts) == [userId |-> userId, hash |-> hash, parts |-> parts]
NoToken == FrontendToken(NoUser, <<>>, 0)

verifyFrontendToken(frontendToken, apiKey) ==
  IF frontendToken.parts = 2 /\ frontendToken.hash = frontendHash(frontendToken.userId, apiKey)
  THEN frontendToken.userId
  ELSE NoUser

\* translationEvents: the userId the request is served as
requestUserId(req) ==
  LET verified == verifyFrontendToken(req.token, req.apiKey)
      authenticated ==
        IF req.authUserId = NoUser /\ req.token # NoToken /\ req.apiKey # "none"
        THEN IF verified # NoUser THEN verified
             ELSE IF ~req.production THEN DevUser
             ELSE NoUser
        ELSE req.authUserId
  IN IF authenticated # NoUser THEN authenticated
     \* Array.from(app.getActiveUsers())[0]
     ELSE IF activeUserSessions # 0 THEN UserId
     ELSE DevUser

\* res.status(401).json({ error: 'Unauthorized' })
UnauthorizedResponse == [type |-> "error", data |-> [status |-> "401 Unauthorized"]]

\* translationEvents for any request, answered on the response c
translationEventsRequest(c, req) ==
  IF req.production /\ req.authUserId = NoUser /\ req.token = NoToken
  THEN /\ received[c] = <<>>
       /\ received' = [received EXCEPT ![c] = <<UnauthorizedResponse>>]
       /\ UNCHANGED <<now, sessionVars, dispatching, sessionDebouncers, debounceTimers,
                      inactivityTimers, userTranscriptProcessors, settingVars,
                      userConfidenceCalculators, cmVars, userSSEClients, broken,
                      glasses, obs>>
  ELSE IF requestUserId(req) = UserId
  THEN translationEvents(c)
  \* the response joins the subscribers of another userId, which has no log
  ELSE /\ received[c] = <<>>
       /\ received' = [received EXCEPT ![c] = <<ConnectedEvent>>]
       /\ UNCHANGED <<now, sessionVars, dispatching, sessionDebouncers, debounceTimers,
                      inactivityTimers, userTranscriptProcessors, settingVars,
                      userConfidenceCalculators, cmVars, userSSEClients, broken,
                      glasses, obs>>

MaxAuthCounter == 2      \* entries created in the log

AuthTokens ==
  {NoToken,
   FrontendToken(UserId, frontendHash(UserId, "key"), 2),
   FrontendToken(UserId, frontendHash("other", "key"), 2),
   FrontendToken(UserId, frontendHash(UserId, "guess"), 2),
   FrontendToken(UserId, <<>>, 1)}

AuthRequests ==
  [production : BOOLEAN, authUserId : {NoUser, UserId}, token : AuthTokens,
   apiKey : {"key"}]

NextAuth ==
  \/ onSession(1, HubSettings)
  \/ \E d \in HubEvents : entryCounter < MaxAuthCounter /\ translation(1, d)
  \/ \E c \in Clients, req \in AuthRequests : translationEventsRequest(c, req)
  \/ \E c \in Clients : closeConnection(c)

SpecAuth == Init /\ [][NextAuth]_vars

\* C24: in production mode a request without the SDK's authUserId whose
\* token does not validate is answered 401 and its response is not added to
\* the user's subscribers.
InvalidTokenRejected ==
  [][\A c \in Clients, req \in AuthRequests :
       (/\ translationEventsRequest(c, req)
        /\ req.production
        /\ req.authUserId = NoUser
        /\ req.token # NoToken
        /\ verifyFrontendToken(req.token, req.apiKey) = NoUser)
         => /\ received'[c] = <<UnauthorizedResponse>>
            /\ c \notin userSSEClients'
    ]_vars

-----------------------------------------------------------------------------
(* SpecGate: one session toward Chinese in either display mode, with no    *)
(* confidence heuristic; its upstream sends finals and interims that are   *)
(* untranslated, translated toward Chinese, or translated the other way;   *)
(* one browser connection subscribes; time passes in steps of the debounce *)
(* delay.                                                                  *)

MaxGateFinals == 1       \* captions in the formatter's history
MaxGateCounter == 1      \* entries created in the log
MaxGateTicks == 1        \* steps of 400 ms that pass

GateSettings ==
  {Settings("English", "Chinese (Hanzi)", m, "None") : m \in {"everything", "translations"}}

GateEvents ==
  {TranslationData(TextA, TextA, f, FALSE, EnUS, EnUS) : f \in BOOLEAN}
    \cup {TranslationData(TextB, TextA, f, TRUE, EnUS, ZhCN) : f \in BOOLEAN}
    \cup {TranslationData(TextC, TextB, f, TRUE, ZhCN, EnUS) : f \in BOOLEAN}

\* the bounds leave room for the event
GateRoom(d) ==
  /\ d.didTranslate => entryCounter < MaxGateCounter
  /\ d.isFinal => Len(userTranscriptProcessors.finals) < MaxGateFinals

NextGate ==
  \/ \E st \in GateSettings : onSession(1, st)
  \/ \E d \in GateEvents : GateRoom(d) /\ translation(1, d)
  \/ \E t \in debounceTimers : fireDebounceTimer(t)
  \/ /\ now < StartTime + MaxGateTicks * debounceDelay
     /\ live[1] = "open"
     /\ Tick(debounceDelay)
  \/ translationEvents("c1")

SpecGate == Init /\ [][NextGate]_vars

\* the detected target language of a translated event is the user's
MatchesTarget(d) ==
  languageSubtag(d.translateLanguage) = languageSubtag(languageToLocale(userTargetLanguages))

\* the step hands the frame of a text to the glasses: it writes the frame,
\* or, for a throttled interim, starts the timer that will write it
HandsFrame(text, isFinal) ==
  LET frame == processStringFrame(userTranscriptProcessors, text, isFinal)
  IN IF isFinal \/ glasses'.n # glasses.n
     THEN /\ glasses'.n # glasses.n
          /\ glasses'.text = cleanTranscriptText(frame)
     ELSE \E t \in debounceTimers' : t.sid = 1 /\ t.transcript = frame

HiddenFinalsNotKept ==
  [][\A d \in GateEvents :
       (/\ translation(1, d)
        /\ d.isFinal
        /\ ~displayGate(userDisplayModes, d.didTranslate))
         => userTranscriptProcessors'.finals = userTranscriptProcessors.finals
    ]_vars

\* C30: an event with didTranslate false leaves the entries, the order, the
\* interim id and the counter of the log unchanged and writes nothing to
\* the subscribers, in either display mode.
UntranslatedNotLogged ==
  [][\A d \in GateEvents :
       (translation(1, d) /\ ~d.didTranslate)
         => /\ UNCHANGED <<entries, entryOrder, currentInterimId, entryCounter>>
            /\ UNCHANGED <<received, userSSEClients>>
    ]_vars

\* an untranslated final is on the glasses of a session that holds an
\* interim entry and has a subscriber, who received that entry last
UntranslatedBesideLog ==
  /\ live[1] = "open"
  /\ "c1" \in userSSEClients
  /\ currentInterimId # 0
  /\ received["c1"][Len(received["c1"])] = TranslationEvent(entries[currentInterimId])
  /\ obs.passed[1].isFinal /\ obs.passed[1].transcript = TextA
  /\ glasses.durationMs = finalDuration
  /\ glasses.text = TextA

-----------------------------------------------------------------------------
(* SpecS1: the scenario S1.  One session toward English with the           *)
(* WordStability heuristic opens; its upstream sends the five interims of  *)
(* the scenario in their order, at most MaxS1Ticks * 100 ms apart in all,  *)
(* which is less than decayTime; timers fire when they are due.            *)

MaxS1Ticks == 4          \* steps of 100 ms that pass

S1Settings == Settings("English", "English", "everything", "WordStability")

The == <<"t", "h", "e">>
S1Texts ==
  <<The,
    The \o <<" ", "q", "u", "i", "k">>,
    The \o <<" ", "q", "u", "i", "c", "k">>,
    The \o <<" ", "q", "u", "i", "c", "k", " ", "b", "r", "o", "w">>,
    The \o <<" ", "q", "u", "i", "c", "k", " ", "b", "r", "o", "w", "n">>>>

\* the interims handled so far: the calculator records the last transcript
S1Handled ==
  IF ~userConfidenceCalculators.exists \/ userConfidenceCalculators.previousTranscript = <<>>
  THEN 0
  ELSE CHOOSE k \in 1..Len(S1Texts) :
         userConfidenceCalculators.previousTranscript = S1Texts[k]

\* the next interim of the scenario
S1Event(d) ==
  /\ S1Handled < Len(S1Texts)
  /\ d = TranslationData(S1Texts[S1Handled + 1], S1Texts[S1Handled + 1],
                         FALSE, FALSE, EnUS, EnUS)

NextS1 ==
  \/ onSession(1, S1Settings)
  \/ \E k \in 1..Len(S1Texts) :
       LET d == TranslationData(S1Texts[k], S1Texts[k], FALSE, FALSE, EnUS, EnUS)
       IN S1Event(d) /\ translation(1, d)
  \/ \E t \in debounceTimers : fireDebounceTimer(t)
  \/ /\ now < StartTime + MaxS1Ticks
     /\ live[1] = "open" /\ TimersPrompt(1)
     /\ Tick(1)

SpecS1 == Init /\ [][NextS1]_vars

\* the prefix last emitted is the text
S1Emitted(text) == obs.prefix.has /\ obs.prefix.text = text

\* the emitted prefix does not lose tokens in this step
S1Grows ==
  (obs.prefix.has /\ obs'.prefix.has)
    => TokenCount(obs'.prefix.text, FALSE) >= TokenCount(obs.prefix.text, FALSE)

\* C27 as the scenario states it: the prefix is 'the' after the 4th interim
\* and 'the quick' after the 5th, and it never loses tokens.
S1AsStated ==
  /\ [](live[1] = "open" =>
          /\ S1Handled = 4 => S1Emitted(S1Texts[1])
          /\ S1Handled = 5 => S1Emitted(S1Texts[3]))
  /\ [][S1Grows]_vars

\* C27, as the code has it: the prefix is empty after the 1st interim,
\* 'the' after the 2nd, 'the quick' after the 3rd and the 4th and
\* 'the quick brown' after the 5th, and it never loses tokens.
S1Stabilizes ==
  /\ [](live[1] = "open" =>
          /\ S1Handled = 1 => S1Emitted(<<>>)
          /\ S1Handled = 2 => S1Emitted(S1Texts[1])
          /\ S1Handled = 3 => S1Emitted(S1Texts[3])
          /\ S1Handled = 4 => S1Emitted(S1Texts[3])
          /\ S1Handled = 5 => S1Emitted(S1Texts[5]))
  /\ [][S1Grows]_vars

\* the scenario has run to its end
S1Over == live[1] = "open" /\ S1Handled = 5 /\ S1Emitted(S1Texts[5])

-----------------------------------------------------------------------------
(* The invariants of the ConversationManager, under SpecClear: its         *)
(* addTranslation, its clear by the inactivity timer, the setLanguagePair  *)
(* of applySettings and its replacement at a stop and a new session.       *)

\* C28: every id of the order list is a key of the entry map, every key of
\* the map is in the order list exactly once, and currentInterimId, when
\* set, is the key of an entry that is not final.
LogInvariants ==
  /\ \A i \in 1..Len(entryOrder) : entryOrder[i] \in DOMAIN entries
  /\ \A id \in DOMAIN entries :
       Cardinality({i \in 1..Len(entryOrder) : entryOrder[i] = id}) = 1
  /\ currentInterimId # 0 =>
       /\ currentInterimId \in DOMAIN entries
       /\ ~entries[currentInterimId].isFinal

\* after a clear that a subscriber saw, the log holds a final and an open
\* interim, and the language pair is set
InterimAfterClear ==
  /\ \E i \in 1..Len(received["c1"]) : received["c1"][i] = ClearEvent
  /\ Len(entryOrder) = 2
  /\ currentInterimId = entryOrder[2]
  /\ entries[entryOrder[1]].isFinal
  /\ languagePair.from = "English"

-----------------------------------------------------------------------------
(* The confidence state after finals and language changes, under           *)
(* SpecSettings.                                                           *)

\* the settings differ from the stored ones in a language
ChangesLanguage(st) ==
  \/ st.sourceLang # userSourceLanguages
  \/ st.targetLang # userTargetLanguages

-----------------------------------------------------------------------------
(* SpecFallback: one session whose initial settings are applied or fail to *)
(* be applied; its upstream sends events of the default stream; one        *)
(* browser connection subscribes; the session stops and opens again.       *)

MaxFallbackCounter == 1   \* entries created in one life of the log
MaxFallbackReceived == 3  \* events the connection receives before the last step
MaxFallbackFinals == 1    \* captions in the formatter's history

FallbackSettings ==
  {Settings("English", "Chinese (Hanzi)", "translations", "None"),
   OnG1(Settings("English", "Hebrew", "translations", "None"))}

FailurePoints == {"read", "show"}

FallbackEvents ==
  {TranslationData(TextA, TextB, f, TRUE, ZhCN, EnUS) : f \in BOOLEAN}
    \cup {TranslationData(TextC, TextC, FALSE, FALSE, EnUS, EnUS)}

\* the bounds leave room for events to the subscriber
FallbackQuiet == Len(received["c1"]) < MaxFallbackReceived

\* the bounds leave room for the event
FallbackRoom(d) ==
  /\ FallbackQuiet
  /\ d.didTranslate => entryCounter < MaxFallbackCounter
  /\ d.isFinal => Len(userTranscriptProcessors.finals) < MaxFallbackFinals

NextFallback ==
  \/ \E st \in FallbackSettings : FallbackQuiet /\ onSession(1, st)
  \/ \E st \in FallbackSettings : \E at \in FailurePoints :
       FallbackQuiet /\ onSessionFallback(1, st, at)
  \/ \E d \in FallbackEvents : FallbackRoom(d) /\ translation(1, d)
  \/ onStop(1)
  \/ FallbackQuiet /\ translationEvents("c1")

SpecFallback == Init /\ [][NextFallback]_vars

\* the stored settings of the user are the defaults
DefaultsStored ==
  /\ userSourceLanguages = defaultSettings.transcribeLanguage
  /\ userTargetLanguages = defaultSettings.translateLanguage
  /\ userDisplayModes = defaultSettings.displayMode
  /\ userConfidenceHeuristics = defaultSettings.confidenceHeuristic

-----------------------------------------------------------------------------
(* A stop of a superseded session, under SpecSessions. *)

\* C33: onStop of a session that is not the user's active session, while
\* another session of the user is active, leaves the user's conversation
\* manager and its log, the caption formatter, the stored languages, the
\* display mode, the heuristic and the confidence calculator unchanged.
StaleStopKeepsState ==
  [][\A sid \in SessionIds :
       (/\ activeUserSessions # 0
        /\ activeUserSessions # sid
        /\ onStop(sid))
         => UNCHANGED <<cmVars, settingVars, userTranscriptProcessors,
                        userConfidenceCalculators>>
    ]_vars

-----------------------------------------------------------------------------
(* The direction of a log entry, under SpecReverse. *)

\* C34: no step changes the originalLanguage or the translatedLanguage of
\* an entry of the log: an update or a promotion of an entry has the
\* direction of the event that created it.
EntryKeepsDirection ==
  [][\A id \in DOMAIN entries \cap DOMAIN entries' :
       /\ entries'[id].originalLanguage = entries[id].originalLanguage
       /\ entries'[id].translatedLanguage = entries[id].translatedLanguage
    ]_vars

-----------------------------------------------------------------------------
(* The interim entry of the log, under SpecLog. *)

\* the ids of the entries of the log that are not final
NonFinalIds == {id \in DOMAIN entries : ~entries[id].isFinal}

\* C35: the log holds at most one entry that is not final, and it is the
\* one currentInterimId names; while currentInterimId is set it is the last
\* id of the order list and the key of an entry, so an eviction has not
\* removed the current interim entry.
SingleInterimLast ==
  /\ Cardinality(NonFinalIds) <= 1
  /\ NonFinalIds \subseteq {currentInterimId}
  /\ currentInterimId # 0 =>
       /\ entryOrder # <<>>
       /\ entryOrder[Len(entryOrder)] = currentInterimId
       /\ currentInterimId \in DOMAIN entries

\* the creation of the current interim entry evicted the oldest entry of a
\* full log
InterimCreatedByEviction ==
  /\ Len(entryOrder) = maxEntries
  /\ entryCounter > maxEntries
  /\ currentInterimId = entryCounter
  /\ entryOrder[1] = entryCounter - maxEntries + 1

-----------------------------------------------------------------------------
(* SpecReformat: one session showing everything; its upstream sends        *)
(* untranslated interims of two texts while time passes in steps of        *)
(* 100 ms and its target language changes; a debounce timer may run late.  *)
(* No final is sent, so a write to the glasses with the duration of a      *)
(* final is the reformatted frame of applySettings.                        *)

MaxReformatTicks == 5      \* steps of 100 ms that pass
MaxReformatHandlers == 3   \* subscriptions of the session object

ReformatSettings ==
  {Settings("English", t, "everything", "None") : t \in {"English", "Chinese (Hanzi)"}}

ReformatEvents == {TranslationData(t, t, FALSE, FALSE, EnUS, EnUS) : t \in {TextA, TextB}}

NextReformat ==
  \/ \E st \in ReformatSettings : onSession(1, st)
  \/ \E st \in ReformatSettings :
       /\ dispatching.left = 0
       /\ Subscriptions(handlers[1]) < MaxReformatHandlers
       /\ st.targetLang # userTargetLanguages
       /\ settingsChange(1, st)
  \/ \E d \in ReformatEvents : translation(1, d)
  \/ nextHandler
  \/ \E t \in debounceTimers : dispatching.left = 0 /\ fireDebounceTimer(t)
  \/ /\ now < StartTime + MaxReformatTicks
     /\ dispatching.left = 0
     /\ Tick(1)

SpecReformat == Init /\ [][NextReformat]_vars

\* the timer was started before the last write to the glasses
StartedBeforeLastWrite(t) == t.due - debounceDelay < glasses.at

\* C36: no debounce timer of a session that was started before applySettings
\* wrote the reformatted frame fires while that frame is the last write to
\* the glasses.
NoOldFrameAfterSettings ==
  [][\A t \in debounceTimers :
       (/\ glasses.sid = t.sid
        /\ glasses.durationMs = finalDuration
        /\ StartedBeforeLastWrite(t))
         => ~fireDebounceTimer(t)
    ]_vars

-----------------------------------------------------------------------------
(* SpecLate: one session that opens, stops and opens again; its upstream   *)
(* sends untranslated finals and interims, and an event of the session may *)
(* be delivered after its stop; time passes in steps of 400 ms.            *)

MaxLateTicks == 2     \* steps of 400 ms that pass
MaxLateFinals == 1    \* captions in the formatter's history

LateSettings == Settings("English", "Chinese (Hanzi)", "everything", "None")

LateEvents == {TranslationData(TextA, TextA, f, FALSE, EnUS, EnUS) : f \in BOOLEAN}

\* the bounds leave room for the event
LateRoom(d) == d.isFinal => Len(userTranscriptProcessors.finals) < MaxLateFinals

NextLate ==
  \/ onSession(1, LateSettings)
  \/ \E d \in LateEvents : LateRoom(d) /\ translation(1, d)
  \/ \E d \in LateEvents : LateRoom(d) /\ lateTranslation(1, d)
  \/ \E t \in debounceTimers : fireDebounceTimer(t)
  \/ now < StartTime + MaxLateTicks * debounceDelay /\ Tick(debounceDelay)
  \/ onStop(1)

SpecLate == Init /\ [][NextLate]_vars

\* C37: while the session is stopped and the user has no active session,
\* the maps hold no caption formatter and no confidence calculator for the
\* user and no debouncer and no inactivity timer for the session.
NoStateAfterStop ==
  (live[1] = "stopped" /\ activeUserSessions = 0)
    => /\ ~userTranscriptProcessors.exists
       /\ ~userConfidenceCalculators.exists
       /\ ~sessionDebouncers[1].exists
       /\ ~inactivityTimers[1].exists

-----------------------------------------------------------------------------
(* SpecPassive: one session showing everything, English to English; its    *)
(* confidence heuristic setting changes between WordStability and the      *)
(* three heuristics that only score; its upstream sends untranslated       *)
(* interims and finals of one word.                                        *)

MaxPassiveHandlers == 2   \* subscriptions of the session object
MaxPassiveStable == 2     \* times a word is seen again within one utterance
MaxPassiveFinals == 1     \* captions in the formatter's history

\* the heuristics whose calculate function leaves the word-detail buffer alone
PassiveHeuristics == {"PrefixRetention", "EditDistance", "TrailingWordDecay"}

PassiveSettings ==
  {Settings("English", "English", "everything", h) :
     h \in PassiveHeuristics \cup {"WordStability"}}

PassiveEvents == {TranslationData(TextA, TextA, f, FALSE, EnUS, EnUS) : f \in BOOLEAN}

\* the bounds leave room for the event
PassiveRoom(d) ==
  /\ d.isFinal => Len(userTranscriptProcessors.finals) < MaxPassiveFinals
  /\ \A k \in 1..Len(userConfidenceCalculators.wordStabilityBuffer) :
       \/ userConfidenceHeuristics \in PassiveHeuristics
       \/ FLt(userConfidenceCalculators.wordStabilityBuffer[k].stableCount,
           FInt(MaxPassiveStable))

NextPassive ==
  \/ \E st \in PassiveSettings : onSession(1, st)
  \/ \E st \in PassiveSettings :
       /\ dispatching.left = 0
       /\ Subscriptions(handlers[1]) < MaxPassiveHandlers
       /\ st.confidenceHeuristic # userConfidenceHeuristics
       /\ settingsChange(1, st)
  \/ \E d \in PassiveEvents : PassiveRoom(d) /\ translation(1, d)
  \/ nextHandler

SpecPassive == Init /\ [][NextPassive]_vars

\* a handler runs on an interim while the heuristic is one that only scores
PassiveInterim ==
  /\ userConfidenceHeuristics \in PassiveHeuristics
  /\ \/ \E d \in PassiveEvents : ~d.isFinal /\ translation(1, d)
     \/ ~dispatching.d.isFinal /\ nextHandler

\* the confidence state holds nothing of an earlier interim
NothingRemembered ==
  /\ userConfidenceCalculators.wordStabilityBuffer = <<>>
  /\ userConfidenceCalculators.lastShownConfidentPrefix = <<>>

\* C38 as stated: under PrefixRetention, EditDistance and TrailingWordDecay
\* the confident prefix of every interim is empty.
PassivePrefixEmpty ==
  [][PassiveInterim => obs'.prefix = [has |-> TRUE, text |-> <<>>]]_vars

\* C38: under PrefixRetention, EditDistance and TrailingWordDecay a handler
\* run on an interim leaves the word-detail buffer unchanged; and when the
\* confidence state holds no word detail and no shown prefix of an earlier
\* interim, the confident prefix is empty and the frame handed to the
\* glasses is that of the caption history alone.
PassivePrefixEmptyAfterReset ==
  [][PassiveInterim
       => /\ userConfidenceCalculators'.wordStabilityBuffer
               = userConfidenceCalculators.wordStabilityBuffer
          /\ NothingRemembered
               => /\ obs'.prefix = [has |-> TRUE, text |-> <<>>]
                  /\ obs'.passed[1].has /\ ~obs'.passed[1].isFinal
                  /\ obs'.passed[1].transcript
                       = processStringFrame(userTranscriptProcessors, <<>>, FALSE)
    ]_vars

\* an interim was scored under TrailingWordDecay after a final was shown:
\* its prefix is empty and the frame handed to the glasses is the caption
\* of the final
HistoryOnlyShown ==
  /\ live[1] = "open"
  /\ userConfidenceHeuristics = "TrailingWordDecay"
  /\ userTranscriptProcessors.finals = <<TextA>>
  /\ userConfidenceCalculators.previousTranscript = TextA
  /\ NothingRemembered
  /\ obs.prefix = [has |-> TRUE, text |-> <<>>]
  /\ obs.passed[1].has /\ ~obs.passed[1].isFinal
  /\ obs.passed[1].transcript = processStringFrame(userTranscriptProcessors, <<>>, FALSE)

-----------------------------------------------------------------------------
(* SpecHistory: one session with a heuristic that writes the word-detail   *)
(* buffer; its upstream repeats the interims of an utterance of two words  *)
(* and sends its final; the session stops and opens again.                 *)

MaxHistoryStable == 6    \* times a word is seen again within one utterance
MaxHistoryFinals == 1    \* captions in the formatter's history

HistorySettings ==
  {Settings("English", "English", "everything", h) :
     h \in {"WordStability", "WordDuration", "Hybrid"}}

HistoryEvents ==
  {TranslationData(t, t, FALSE, FALSE, EnUS, EnUS) : t \in {TextA, <<"a", " ", "b">>}}
    \cup {TranslationData(TextA, TextA, TRUE, FALSE, EnUS, EnUS)}

\* the bounds leave room for the event
HistoryRoom(d) ==
  /\ d.isFinal => Len(userTranscriptProcessors.finals) < MaxHistoryFinals
  /\ \A k \in 1..Len(userConfidenceCalculators.wordStabilityBuffer) :
       FLt(userConfidenceCalculators.wordStabilityBuffer[k].stableCount,
           FInt(MaxHistoryStable))

NextHistory ==
  \/ \E st \in HistorySettings : onSession(1, st)
  \/ \E d \in HistoryEvents : HistoryRoom(d) /\ translation(1, d)
  \/ onStop(1)

SpecHistory == Init /\ [][NextHistory]_vars

\* C39: every word detail of the buffer has at most 5 positions in its
\* positionHistory.
PositionHistoryBounded ==
  \A k \in 1..Len(userConfidenceCalculators.wordStabilityBuffer) :
    Len(userConfidenceCalculators.wordStabilityBuffer[k].positionHistory) <= 5

====
